---------------------------- MODULE Spec2Model ----------------------------
(***************************************************************************)
(* A model of the graph-container engine of the canvas: the scene's forest *)
(* of Graph containers with their Node and Edge children, the split check  *)
(* (CanvasScene::searchAndSeparate), node / edge / graph deletion, the     *)
(* join-mode anchor selection, the two-node and four-node join             *)
(* (CanvasScene::keyReleaseEvent) and Graph::setRotation.                  *)
(*                                                                         *)
(* Pointers are identifiers: a Node is a member of NodeIds, an Edge of     *)
(* EdgeIds, a Graph of GraphIds, and nullptr is Null.  A "new Graph" takes *)
(* the smallest identifier no live Graph has.                              *)
(***************************************************************************)
EXTENDS Integers, Sequences, FiniteSets, TLC

\* ------------------------------------------------------------------ bounds
\* Number of Node objects of the initial canvases.
MaxNodes == 5
\* Largest number of items one mouse press finds stacked under the cursor.
MaxOverlap == 1
\* Largest rotation, in steps of the rotation widget, the model lets a Graph
\* on the canvas reach.
MaxRot == 1

\* Largest number of input events that arrive while joins animate, number
\* of the first processEvents() calls of a join during which they arrive,
\* and largest number of joins inside their animation at once.
MaxPumpEvents == 2
MaxInputStep == 1
MaxDepth == 2

\* Largest rotation amount, in either direction, handed to
\* Graph::setRotation on its own, and largest rotation it may produce.
MaxTurn == 2

\* Largest rotation, in quarter turns, of a Graph whose Nodes have places.
MaxQuarter == 1

\* A call of boundingBox on its own: at most MaxBoxItems children, their
\* coordinates 0, 2, .., 2 * MaxCoord and their radii 2, .., 2 + 2 * MaxRadius.
MaxBoxItems == 3
MaxCoord == 2
MaxRadius == 1

\* Largest number of Nodes and Edges freestyle mode creates.
MaxCreated == 3
\* The same where freestyle editing is mixed with deletions and joins.
MaxEditCreated == 2

\* Constants for the join animations (canvasscene.cpp).
ANIMATION_STEPS == 10

NodeIds == 1..MaxNodes
\* Number of Nodes of the canvases on which every handler runs.
CanvasNodes == 4
\* Largest number of chords between the spokes of an initial canvas.
MaxChords == 2
EdgeIds == 1..(MaxNodes - 1 + MaxChords)
GraphIds == 1..(2 * MaxNodes)
Null == 0

\* enum mode {drag, join, del, edit, freestyle, select}
Modes == {"drag", "join", "del", "edit", "freestyle", "select"}

VARIABLES
    nodes,            \* the live Node objects
    nparent,          \* Node -> its parentItem() (a Graph, or Null)
    nrot,             \* Node -> its rotation()
    npos,             \* Node -> its pos(), in its parent's coordinates
    nchecked,         \* Node -> its 'checked' flag
    label,            \* Node -> its label, a sequence of characters
    edgeList,         \* Node -> its edgeList (a sequence of Edges)
    edges,            \* the live Edge objects
    eparent,          \* Edge -> its parentItem()
    source,           \* Edge -> its source Node
    dest,             \* Edge -> its dest Node
    erot,             \* Edge -> its rotation()
    epos,             \* Edge -> its pos()
    echecked,         \* Edge -> its 'checked' flag
    graphs,           \* the live Graph objects
    grot,             \* Graph -> its rotation(), in quarter turns
    gpos,             \* Graph -> its pos(), in scene coordinates
    canvasGraphList,  \* the canvas-wide list of Graphs
    connectNode1a, connectNode1b, connectNode2a, connectNode2b,
    modeType,         \* CanvasScene::modeType
    freestyleGraph,   \* CanvasView::freestyleGraph
    node1,            \* CanvasView::node1, the Node a freestyle Edge
                      \* starts from (node2 is nullptr between handlers)
    created,          \* the number of Nodes and Edges freestyle mode has
                      \* created
    emitted,          \* the signals the last handler raised, in order
    lastEvent,        \* the handler that ran last, with its arguments
    joinStack,        \* the activations of keyReleaseEvent('J') that are
                      \* inside their animation loops, innermost last
    crashed,          \* an undefined operation was executed
    boxCall           \* a call of Graph::boundingBox on its own: the Node
                      \* children it sees, its flag and what it returned

sceneVars == <<nodes, nparent, nrot, npos, nchecked, label, edgeList, edges,
               eparent, source, dest, erot, epos, echecked, graphs, grot,
               gpos, canvasGraphList>>
anchorVars == <<connectNode1a, connectNode1b, connectNode2a, connectNode2b>>
vars == <<sceneVars, anchorVars, modeType, freestyleGraph, node1, created,
          emitted,
          lastEvent, joinStack, crashed, boxCall>>

\* ------------------------------------------------------------ list helpers
\* QList::contains
Contains(seq, x) == \E k \in 1..Len(seq) : seq[k] = x

\* QList::indexOf, 0-based; -1 when absent
IndexOf(seq, x) ==
    IF Contains(seq, x)
    THEN (CHOOSE k \in 1..Len(seq) :
              seq[k] = x /\ \A m \in 1..(k - 1) : seq[m] # x) - 1
    ELSE -1

\* QList::removeOne: drops the first occurrence
RemoveOne(seq, x) ==
    IF Contains(seq, x)
    THEN LET k == IndexOf(seq, x) + 1
         IN  SubSeq(seq, 1, k - 1) \o SubSeq(seq, k + 1, Len(seq))
    ELSE seq

SeqToSet(seq) == {seq[k] : k \in 1..Len(seq)}

MinOf(S) == CHOOSE x \in S : \A y \in S : x <= y

\* --------------------------------------------------------------- geometry
\* A QPointF with whole coordinates.
Origin == <<0, 0>>
Plus(p, q) == <<p[1] + q[1], p[2] + q[2]>>
Minus(p, q) == <<p[1] - q[1], p[2] - q[2]>>

\* QGraphicsItem rotation by k quarter turns about the item's origin:
\* one quarter turn takes (x, y) to (-y, x).
Turn(k, p) ==
    LET q == k % 4
    IN  IF q = 0 THEN p
        ELSE IF q = 1 THEN <<-p[2], p[1]>>
        ELSE IF q = 2 THEN <<-p[1], -p[2]>>
        ELSE <<p[2], -p[1]>>

\* ------------------------------------------------------------- the scene
\* The scene as one value, for the operators that transform it.
Scene ==
    [nodes |-> nodes, nparent |-> nparent, nrot |-> nrot,
     nchecked |-> nchecked, edgeList |-> edgeList,
     edges |-> edges, eparent |-> eparent, source |-> source, dest |-> dest,
     erot |-> erot, echecked |-> echecked,
     graphs |-> graphs, grot |-> grot, glist |-> canvasGraphList,
     npos |-> npos, epos |-> epos, gpos |-> gpos, label |-> label]

SetScene(s) ==
    /\ nodes' = s.nodes
    /\ nparent' = s.nparent
    /\ nrot' = s.nrot
    /\ nchecked' = s.nchecked
    /\ edgeList' = s.edgeList
    /\ edges' = s.edges
    /\ eparent' = s.eparent
    /\ source' = s.source
    /\ dest' = s.dest
    /\ erot' = s.erot
    /\ echecked' = s.echecked
    /\ graphs' = s.graphs
    /\ grot' = s.grot
    /\ canvasGraphList' = s.glist
    /\ npos' = s.npos
    /\ label' = s.label
    /\ epos' = s.epos
    /\ gpos' = s.gpos

\* An item of a QList<QGraphicsItem *>: a Node or an Edge.
NodeItem(n) == <<"node", n>>
EdgeItem(e) == <<"edge", e>>
IsNode(item) == item[1] = "node"

\* Graph::childItems(), as a set
ChildNodes(s, g) == {n \in s.nodes : s.nparent[n] = g}
ChildEdges(s, g) == {e \in s.edges : s.eparent[e] = g}
ChildItemsEmpty(s, g) == ChildNodes(s, g) = {} /\ ChildEdges(s, g) = {}

\* new Graph(): rotation 0, no children; addItem() puts it in the scene.
NewGraphId(s) == MinOf(GraphIds \ s.graphs)
NewGraph(s) ==
    LET g == NewGraphId(s)
    IN  [s EXCEPT !.graphs = @ \cup {g}, !.grot[g] = 0, !.gpos[g] = Origin]

\* removeItem(graph); delete graph: a Graph's destructor deletes its
\* children (QGraphicsItem::~QGraphicsItem); nothing removes a deleted Edge
\* from the edgeList of a Node that outlives it.
DeleteGraphObject(s, g) ==
    LET dn == ChildNodes(s, g)
        de == ChildEdges(s, g)
    IN  [s EXCEPT
           !.graphs = @ \ {g},
           !.grot[g] = 0,
           !.gpos[g] = Origin,
           !.npos = [n \in NodeIds |-> IF n \in dn THEN Origin ELSE @[n]],
           !.label = [n \in NodeIds |-> IF n \in dn THEN <<>> ELSE @[n]],
           !.epos = [e \in EdgeIds |-> IF e \in de THEN Origin ELSE @[e]],
           !.nodes = @ \ dn,
           !.nparent = [n \in NodeIds |-> IF n \in dn THEN Null ELSE @[n]],
           !.nrot = [n \in NodeIds |-> IF n \in dn THEN 0 ELSE @[n]],
           !.edgeList = [n \in NodeIds |-> IF n \in dn THEN <<>> ELSE @[n]],
           !.edges = @ \ de,
           !.eparent = [e \in EdgeIds |-> IF e \in de THEN Null ELSE @[e]],
           !.source = [e \in EdgeIds |-> IF e \in de THEN Null ELSE @[e]],
           !.dest = [e \in EdgeIds |-> IF e \in de THEN Null ELSE @[e]],
           !.erot = [e \in EdgeIds |-> IF e \in de THEN 0 ELSE @[e]]]

\* setParentItem(nullptr); removeItem(node); delete node
DeleteNodeObject(s, n) ==
    [s EXCEPT !.nodes = @ \ {n}, !.nparent[n] = Null, !.nrot[n] = 0,
              !.nchecked[n] = 0, !.edgeList[n] = <<>>, !.npos[n] = Origin,
              !.label[n] = <<>>]

\* setParentItem(nullptr); removeItem(edge); delete edge
DeleteEdgeObject(s, e) ==
    [s EXCEPT !.edges = @ \ {e}, !.eparent[e] = Null, !.source[e] = Null,
              !.dest[e] = Null, !.erot[e] = 0, !.echecked[e] = 0,
              !.epos[e] = Origin]

\* Node::removeEdge without effect
removeEdgeNothing(s, n, e) == s

\* Node::removeEdge: drops the first occurrence of the Edge
removeEdge(s, n, e) == [s EXCEPT !.edgeList[n] = RemoveOne(@, e)]

\* Node::addEdge
addEdge(s, n, e) == [s EXCEPT !.edgeList[n] = Append(@, e)]

\* QGraphicsItem::scenePos() of a Node or an Edge: its pos() mapped
\* through its parent Graph's rotation and position.
MapToScene(s, g, p) ==
    IF g \in s.graphs THEN Plus(s.gpos[g], Turn(s.grot[g], p)) ELSE p

scenePos(s, item) ==
    IF IsNode(item) THEN MapToScene(s, s.nparent[item[2]], s.npos[item[2]])
    ELSE MapToScene(s, s.eparent[item[2]], s.epos[item[2]])

ReparentKeepRotation(s, item, g) ==
    LET itemPos == scenePos(s, item)
    IN  IF IsNode(item)
        THEN [s EXCEPT !.nparent[item[2]] = g, !.npos[item[2]] = itemPos]
        ELSE [s EXCEPT !.eparent[item[2]] = g, !.epos[item[2]] = itemPos]

ReparentKeepPos(s, item, g) ==
    IF IsNode(item)
    THEN [s EXCEPT !.nparent[item[2]] = g, !.nrot[item[2]] = 0]
    ELSE [s EXCEPT !.eparent[item[2]] = g, !.erot[item[2]] = 0]

\* itemPos = item->scenePos(); item->setParentItem(graph);
\* item->setPos(itemPos); item->setRotation(0)
Reparent(s, item, g) ==
    LET itemPos == scenePos(s, item)
    IN  IF IsNode(item)
        THEN [s EXCEPT !.nparent[item[2]] = g, !.npos[item[2]] = itemPos,
                       !.nrot[item[2]] = 0]
        ELSE [s EXCEPT !.eparent[item[2]] = g, !.epos[item[2]] = itemPos,
                       !.erot[item[2]] = 0]

RECURSIVE ReparentAll(_, _, _)
ReparentAll(s, items, g) ==
    IF items = <<>> THEN s
    ELSE ReparentAll(Reparent(s, Head(items), g), Tail(items), g)

\* ------------------------------------------------------ searchAndSeparate
(***************************************************************************)
(* The locals of CanvasScene::searchAndSeparate, with the scene it works   *)
(* on: f.sc is the scene, f.i and f.j the two indexes (0-based, as in the  *)
(* code), f.graphNodes the work list, f.graphItems the items of the        *)
(* candidate graph, f.skipList the indexes reached in this pass.           *)
(*                                                                         *)
(* The code walks graphNodes with "for (Node * node : graphNodes)" while   *)
(* the body appends to the list and ends with graphNodes.removeOne(node).  *)
(* QList keeps its elements in one array with a begin offset, and          *)
(* removing the first element only advances that offset, so the iterator's *)
(* next position is the new first element: every pass of the body takes    *)
(* the current front of the list.  That holds as long as no append         *)
(* re-allocates or compacts the array while a for statement that started   *)
(* on two or more elements is running, which needs more than six appends   *)
(* in one call; the canvases of this model stay below that.                *)
(*                                                                         *)
(* f.newGraphs and f.passes are no locals of the code: they record what    *)
(* the call did, the Graphs it created and, for every pass of the outer    *)
(* loop, the Node it started from, whether some checked flag was set when  *)
(* it began, the Nodes it reached and the items it reparented.             *)
(***************************************************************************)
SearchLocals(s) ==
    [sc |-> s, i |-> 0, j |-> 1, graphAdded |-> FALSE,
     graphNodes |-> <<>>, graphItems |-> <<>>, skipList |-> <<>>,
     newGraphs |-> <<>>, passes |-> <<>>]

\* Nodes.indexOf(Nodes.last())
LastIndex(Nodes) == IndexOf(Nodes, Nodes[Len(Nodes)])

\* while (j <= Nodes.indexOf(Nodes.last())) { if (node == Nodes.at(j))
\*     skipList.append(j); j++; }   j = i + 1;
RECURSIVE FillSkipList(_, _, _)
FillSkipList(f, Nodes, node) ==
    IF f.j <= LastIndex(Nodes)
    THEN FillSkipList(
             [f EXCEPT !.skipList = IF node = Nodes[f.j + 1]
                                     THEN Append(@, f.j) ELSE @,
                       !.j = @ + 1],
             Nodes, node)
    ELSE [f EXCEPT !.j = f.i + 1]

\* The body of "foreach (Edge * edge, node->edgeList)" for one edge.
VisitEdge(f, edge) ==
    LET d == f.sc.dest[edge]
        sr == f.sc.source[edge]
        f1 == IF ~Contains(f.graphNodes, d) /\ f.sc.nchecked[d] = 0
              THEN [f EXCEPT !.graphNodes = Append(@, d),
                             !.graphItems =
                                 IF Contains(@, NodeItem(d)) THEN @
                                 ELSE Append(@, NodeItem(d))]
              ELSE IF ~Contains(f.graphNodes, sr) /\ f.sc.nchecked[sr] = 0
              THEN [f EXCEPT !.graphNodes = Append(@, sr),
                             !.graphItems =
                                 IF Contains(@, NodeItem(sr)) THEN @
                                 ELSE Append(@, NodeItem(sr))]
              ELSE f
    IN  [f1 EXCEPT !.graphItems = IF Contains(@, EdgeItem(edge)) THEN @
                                  ELSE Append(@, EdgeItem(edge)),
                   !.sc.echecked[edge] = 1]

RECURSIVE VisitEdges(_, _)
VisitEdges(f, es) ==
    IF es = <<>> THEN f ELSE VisitEdges(VisitEdge(f, Head(es)), Tail(es))

\* One pass of the body of "for (Node * node : graphNodes)".
VisitNode(f, Nodes, node) ==
    LET f1 == FillSkipList(f, Nodes, node)
        f2 == [f1 EXCEPT !.sc.nchecked[node] = 1]
        f3 == VisitEdges(f2, f2.sc.edgeList[node])
    IN  [f3 EXCEPT !.graphNodes = RemoveOne(@, node)]

\* while (!graphNodes.isEmpty()) for (Node * node : graphNodes) ...
RECURSIVE Traverse(_, _)
Traverse(f, Nodes) ==
    IF f.graphNodes = <<>> THEN f
    ELSE Traverse(VisitNode(f, Nodes, Head(f.graphNodes)), Nodes)

\* if (skipList.count() != (Nodes.count() - i - 1))
SplitNeededNever(f, Nodes) == FALSE

SplitNeededAlways(f, Nodes) == TRUE

SplitNeeded(f, Nodes) == Len(f.skipList) # Len(Nodes) - f.i - 1

\* Graph * graph = new Graph; addItem(graph); canvasGraphList.append(graph);
\* foreach item of graphItems: setParentItem(graph), setRotation(0)
SeparateStartOnly(f) ==
    LET g == NewGraphId(f.sc)
        s1 == NewGraph(f.sc)
        s2 == [s1 EXCEPT !.glist = Append(@, g)]
    IN  [f EXCEPT !.sc = Reparent(s2, Head(f.graphItems), g),
                  !.graphAdded = TRUE,
                  !.newGraphs = Append(@, g)]

SeparateUnlisted(f) ==
    LET g == NewGraphId(f.sc)
        s1 == NewGraph(f.sc)
    IN  [f EXCEPT !.sc = ReparentAll(s1, f.graphItems, g),
                  !.graphAdded = TRUE,
                  !.newGraphs = Append(@, g)]

Separate(f) ==
    LET g == NewGraphId(f.sc)
        s1 == NewGraph(f.sc)
        s2 == [s1 EXCEPT !.glist = Append(@, g)]
    IN  [f EXCEPT !.sc = ReparentAll(s2, f.graphItems, g),
                  !.graphAdded = TRUE,
                  !.newGraphs = Append(@, g)]

\* A reset that handles the Node items only.
ResetCheckedNodes(f) ==
    [f EXCEPT
       !.sc.nchecked = [n \in NodeIds |->
                          IF Contains(f.graphItems, NodeItem(n)) THEN 0
                          ELSE @[n]],
       !.graphItems = <<>>]

\* "Reset all the checked items": every item of graphItems gets checked = 0.
ResetChecked(f) ==
    [f EXCEPT
       !.sc.nchecked = [n \in NodeIds |->
                          IF Contains(f.graphItems, NodeItem(n)) THEN 0
                          ELSE @[n]],
       !.sc.echecked = [e \in EdgeIds |->
                          IF Contains(f.graphItems, EdgeItem(e)) THEN 0
                          ELSE @[e]],
       !.graphItems = <<>>]

\* i++; while (skipList.contains(i)) i++;
RECURSIVE SkipReached(_, _)
SkipReached(i, skipList) ==
    IF Contains(skipList, i) THEN SkipReached(i + 1, skipList) ELSE i

NextStart(f) == SkipReached(f.i + 1, f.skipList)

\* One pass of "while (i < Nodes.indexOf(Nodes.last()))".  After(f2) is the
\* rest of the pass once the traversal has left the locals f2; the
\* traversal is computed once.
SearchPass(f, Nodes) ==
    LET startNode == Nodes[f.i + 1]
        f1 == [f EXCEPT !.graphNodes = Append(@, startNode),
                        !.graphItems = Append(@, NodeItem(startNode))]
        After(f2) ==
            LET split == SplitNeeded(f2, Nodes)
                f3 == IF split THEN Separate(f2) ELSE f2
                f4 == ResetChecked(f3)
                i2 == NextStart(f4)
                pass == [start |-> startNode,
                         stale |->
                             \/ \E n \in f.sc.nodes : f.sc.nchecked[n] # 0
                             \/ \E e \in f.sc.edges : f.sc.echecked[e] # 0,
                         reached |-> {n \in NodeIds :
                                        Contains(f2.graphItems, NodeItem(n))},
                         moved |-> IF split THEN f2.graphItems ELSE <<>>]
            IN  [f4 EXCEPT !.i = i2, !.skipList = <<>>, !.j = i2 + 1,
                           !.passes = Append(@, pass)]
    IN  CHOOSE r \in {After(f2) : f2 \in {Traverse(f1, Nodes)}} : TRUE

RECURSIVE SearchLoop(_, _)
SearchLoop(f, Nodes) ==
    IF f.i < LastIndex(Nodes) THEN SearchLoop(SearchPass(f, Nodes), Nodes)
    ELSE f

\* The locals on return; .sc is the scene, .graphAdded says whether
\* graphSeparated is emitted, .newGraphs lists the Graphs created, in order.
searchAndSeparate(s, Nodes) == SearchLoop(SearchLocals(s), Nodes)

\* ------------------------------------------------------------- deletion
\* The body of "foreach (Edge * edge, node->edgeList)" of the node-delete
\* branch: d.sc is the scene, d.adjacentNodes the list being built.
DeleteIncidentEdge(d, node, edge) ==
    LET dn == d.sc.dest[edge]
        sn == d.sc.source[edge]
        adj == IF ~Contains(d.adjacentNodes, dn) /\ dn # node
               THEN Append(d.adjacentNodes, dn)
               ELSE IF ~Contains(d.adjacentNodes, sn) /\ sn # node
               THEN Append(d.adjacentNodes, sn)
               ELSE d.adjacentNodes
        s1 == removeEdge(removeEdge(d.sc, dn, edge), sn, edge)
    IN  [sc |-> DeleteEdgeObject(s1, edge), adjacentNodes |-> adj]

RECURSIVE DeleteIncidentEdges(_, _, _)
DeleteIncidentEdges(d, node, es) ==
    IF es = <<>> THEN d
    ELSE DeleteIncidentEdges(DeleteIncidentEdge(d, node, Head(es)), node,
                             Tail(es))

\* "Now delete Graph (and root graphs) if there are no nodes left."
RemoveGraphIfEmpty(s, g) ==
    IF g # Null /\ ChildItemsEmpty(s, g)
    THEN DeleteGraphObject([s EXCEPT !.glist = RemoveOne(@, g)], g)
    ELSE s

\* mousePressEvent, del mode, a Node under the cursor.  The result has the
\* scene (.sc) and whether searchAndSeparate emitted graphSeparated.
DeleteNodeScene(s, node) ==
    LET d == DeleteIncidentEdges([sc |-> s, adjacentNodes |-> <<>>], node,
                                 s.edgeList[node])
        searched == Len(d.adjacentNodes) > 1
        Rest(f) ==
            LET parent == f.sc.nparent[node]
                s2 == DeleteNodeObject(f.sc, node)
            IN  [sc |-> RemoveGraphIfEmpty(s2, parent),
                 graphAdded |-> f.graphAdded,
                 adjacentNodes |-> d.adjacentNodes,
                 newGraphs |-> f.newGraphs,
                 passes |-> f.passes]
    IN  CHOOSE r \in {Rest(f) :
                         f \in {IF searched
                                THEN searchAndSeparate(d.sc, d.adjacentNodes)
                                ELSE SearchLocals(d.sc)}} : TRUE

DeleteEdgeSceneNoSearch(s, edge) ==
    LET dn == s.dest[edge]
        sn == s.source[edge]
        s1 == removeEdge(removeEdge(s, dn, edge), sn, edge)
    IN  [sc |-> DeleteEdgeObject(s1, edge),
         graphAdded |-> FALSE,
         adjacentNodes |-> <<dn, sn>>,
         newGraphs |-> <<>>,
         passes |-> <<>>]

\* mousePressEvent, del mode, an Edge under the cursor.
DeleteEdgeScene(s, edge) ==
    LET dn == s.dest[edge]
        sn == s.source[edge]
        s1 == removeEdge(removeEdge(s, dn, edge), sn, edge)
        s2 == [s1 EXCEPT !.eparent[edge] = Null]
        Rest(f) == [sc |-> DeleteEdgeObject(f.sc, edge),
                    graphAdded |-> f.graphAdded,
                    adjacentNodes |-> <<dn, sn>>,
                    newGraphs |-> f.newGraphs,
                    passes |-> f.passes]
    IN  CHOOSE r \in {Rest(f) : f \in {searchAndSeparate(s2, <<dn, sn>>)}} :
            TRUE

SeparatedSignal(r) == IF r.graphAdded THEN <<"graphSeparated">> ELSE <<>>

\* ------------------------------------------------------------- rotation
\* ---------------------------------------------- boundingBox, centerGraph
\* The locals of Graph::boundingBox before its loop.
BoxLocals ==
    [firstNode |-> TRUE, minx |-> 0, maxx |-> 0, miny |-> 0, maxy |-> 0,
     RGminx |-> 0, RGmaxx |-> 0, RGminy |-> 0, RGmaxy |-> 0]

\* Graph::boundingBox, the body of its loop for one Node child 'it':
\* x, y its scenePos(), RGx, RGy its pos(), r its radius in screen units
\* (getDiameter() / 2 * currentPhysicalDPI).
BoxNode(b, it, useNodeSizes) ==
    LET r == IF useNodeSizes THEN it.r ELSE 0
    IN  IF b.firstNode
        THEN [firstNode |-> FALSE,
              minx |-> it.x - r, maxx |-> it.x + r,
              miny |-> it.y - r, maxy |-> it.y + r,
              RGminx |-> it.RGx, RGmaxx |-> it.RGx,
              RGminy |-> it.RGy, RGmaxy |-> it.RGy]
        ELSE [firstNode |-> FALSE,
              maxx |-> IF it.x + r > b.maxx THEN it.x + r ELSE b.maxx,
              minx |-> IF ~(it.x + r > b.maxx) /\ it.x - r < b.minx
                       THEN it.x - r ELSE b.minx,
              maxy |-> IF it.y + r > b.maxy THEN it.y + r ELSE b.maxy,
              miny |-> IF ~(it.y + r > b.maxy) /\ it.y - r < b.miny
                       THEN it.y - r ELSE b.miny,
              RGmaxx |-> IF it.RGx > b.RGmaxx THEN it.RGx ELSE b.RGmaxx,
              RGminx |-> IF ~(it.RGx > b.RGmaxx) /\ it.RGx < b.RGminx
                         THEN it.RGx ELSE b.RGminx,
              RGmaxy |-> IF it.RGy > b.RGmaxy THEN it.RGy ELSE b.RGmaxy,
              RGminy |-> IF ~(it.RGy > b.RGmaxy) /\ it.RGy < b.RGminy
                         THEN it.RGy ELSE b.RGminy]

\* The loop over childItems(), in their order; only a Node child has a
\* case in the switch.
RECURSIVE BoxLoop(_, _, _)
BoxLoop(b, items, useNodeSizes) ==
    IF items = <<>> THEN b
    ELSE BoxLoop(IF Head(items).type = "node"
                 THEN BoxNode(b, Head(items), useNodeSizes)
                 ELSE b,
                 Tail(items), useNodeSizes)

Whole(v) == v

\* (a + b) / 2. of the code; whole when a + b is even.
Half(v) == v \div 2

\* Graph::boundingBox(center, useNodeSizes, RGcenter): the QRectF
\* (x, y, width, height) it returns and the two centres it copies out.
boundingBox(items, useNodeSizes) ==
    LET b == BoxLoop(BoxLocals, items, useNodeSizes)
    IN  [rect |-> <<b.minx, b.miny, b.maxx - b.minx, b.maxy - b.miny>>,
         center |-> <<Half(b.maxx + b.minx), Half(b.maxy + b.miny)>>,
         RGcenter |-> <<Half(b.RGmaxx + b.RGminx),
                        Half(b.RGmaxy + b.RGminy)>>,
         exact |-> /\ (b.maxx + b.minx) % 2 = 0
                   /\ (b.maxy + b.miny) % 2 = 0
                   /\ (b.RGmaxx + b.RGminx) % 2 = 0
                   /\ (b.RGmaxy + b.RGminy) % 2 = 0]

\* A set of Node ids as a sequence, in ascending order.
RECURSIVE Ascending(_)
Ascending(S) ==
    IF S = {} THEN <<>> ELSE <<MinOf(S)>> \o Ascending(S \ {MinOf(S)})

\* The Node children of Graph g as boundingBox sees them when it does not
\* use the node sizes.
ChildBoxItems(s, g) ==
    LET ns == Ascending(ChildNodes(s, g))
    IN  [k \in 1..Len(ns) |->
            [type |-> "node",
             x |-> scenePos(s, NodeItem(ns[k]))[1],
             y |-> scenePos(s, NodeItem(ns[k]))[2],
             RGx |-> s.npos[ns[k]][1], RGy |-> s.npos[ns[k]][2]]]

centerGraphOriginOnly(s, g) ==
    LET RGcenter == boundingBox(ChildBoxItems(s, g), FALSE).RGcenter
    IN  [s EXCEPT !.gpos[g] = Plus(@, RGcenter)]

\* Graph::centerGraph()
centerGraph(s, g) ==
    LET RGcenter == boundingBox(ChildBoxItems(s, g), FALSE).RGcenter
    IN  [s EXCEPT
           !.npos = [n \in NodeIds |->
                       IF n \in ChildNodes(s, g) THEN Minus(@[n], RGcenter)
                       ELSE @[n]],
           !.gpos[g] = Plus(@, RGcenter)]

\* The centres boundingBox computes for Graph g are whole numbers.
CenterExact(s, g) == boundingBox(ChildBoxItems(s, g), FALSE).exact

setRotationUncompensated(s, g, rotationAmount, rotationIsRelative) ==
    [s EXCEPT !.grot[g] = IF rotationIsRelative THEN @ + rotationAmount
                          ELSE rotationAmount]

\* Graph::setRotation(rotationAmount, rotationIsRelative)
setRotation(s, g, rotationAmount, rotationIsRelative) ==
    LET newRotation == IF rotationIsRelative THEN s.grot[g] + rotationAmount
                       ELSE rotationAmount
    IN  [s EXCEPT
           !.nrot = [n \in NodeIds |->
                       IF n \in ChildNodes(s, g) THEN -newRotation ELSE @[n]],
           !.erot = [e \in EdgeIds |->
                       IF e \in ChildEdges(s, g) THEN -newRotation ELSE @[e]],
           !.grot[g] = newRotation]

\* ----------------------------------------------------------------- join
\* The four anchor slots as one value.
Anchors ==
    [n1a |-> connectNode1a, n1b |-> connectNode1b,
     n2a |-> connectNode2a, n2b |-> connectNode2b]

NoAnchors == [n1a |-> Null, n1b |-> Null, n2a |-> Null, n2b |-> Null]

SetAnchors(a) ==
    /\ connectNode1a' = a.n1a
    /\ connectNode1b' = a.n1b
    /\ connectNode2a' = a.n2a
    /\ connectNode2b' = a.n2b

\* The test that guards the four-node join.
FourNodeGuard(s, a) ==
    /\ s.nparent[a.n1a] # s.nparent[a.n2a]
    /\ s.nparent[a.n1a] # s.nparent[a.n2b]
    /\ s.nparent[a.n1b] # s.nparent[a.n2a]
    /\ s.nparent[a.n1b] # s.nparent[a.n2b]

\* The test that guards the two-node join.
TwoNodeGuard(s, a) == s.nparent[a.n1a] # s.nparent[a.n2a]

RewireEdgeSourceOnly(s, edge, n2, n1) ==
    LET s1 == IF s.source[edge] = n2 THEN [s EXCEPT !.source[edge] = n1]
              ELSE s
    IN  addEdge(s1, n1, edge)

RewireEdgeDestOnly(s, edge, n2, n1) ==
    addEdge([s EXCEPT !.dest[edge] = n1], n1, edge)

\* foreach (Edge * edge, n2->edges()): replace n2 in the edge by n1 and add
\* the edge to n1's list.
RewireEdge(s, edge, n2, n1) ==
    LET s1 == IF s.source[edge] = n2 THEN [s EXCEPT !.source[edge] = n1]
              ELSE [s EXCEPT !.dest[edge] = n1]
    IN  addEdge(s1, n1, edge)

RECURSIVE RewireEdges(_, _, _, _)
RewireEdges(s, es, n2, n1) ==
    IF es = <<>> THEN s
    ELSE RewireEdges(RewireEdge(s, Head(es), n2, n1), Tail(es), n2, n1)

Rewire(s, n2, n1) == RewireEdges(s, s.edgeList[n2], n2, n1)

\* The duplicate found: removed from the four anchors' lists and deleted.
RemoveDuplicate(s, a, edge) ==
    DeleteEdgeObject(
        removeEdge(removeEdge(removeEdge(removeEdge(s, a.n1a, edge),
                                         a.n1b, edge), a.n2a, edge),
                   a.n2b, edge),
        edge)

\* "check if node1a and node1b have two edges connecting them and, if so,
\* delete one": the loop over connectNode1a->edges().
RECURSIVE DedupeLoop(_, _, _, _)
DedupeLoop(s, es, existingEdge, a) ==
    IF es = <<>> THEN s
    ELSE LET edge == Head(es)
         IN  IF s.source[edge] = a.n1b \/ s.dest[edge] = a.n1b
             THEN IF existingEdge = Null
                  THEN DedupeLoop(s, Tail(es), edge, a)
                  ELSE RemoveDuplicate(s, a, edge)
             ELSE DedupeLoop(s, Tail(es), existingEdge, a)

DedupeNothing(s, a) == s

Dedupe(s, a) == DedupeLoop(s, s.edgeList[a.n1a], Null, a)

\* foreach (item, root->childItems()): itemPos = item->scenePos(),
\* setParentItem(newRoot), setPos(itemPos - root1Pos), setRotation(0)
MoveChildren(s, root, newRoot, root1Pos) ==
    [s EXCEPT
       !.nparent = [n \in NodeIds |->
                      IF n \in ChildNodes(s, root) THEN newRoot ELSE @[n]],
       !.npos = [n \in NodeIds |->
                   IF n \in ChildNodes(s, root)
                   THEN Minus(scenePos(s, NodeItem(n)), root1Pos)
                   ELSE @[n]],
       !.nrot = [n \in NodeIds |->
                   IF n \in ChildNodes(s, root) THEN 0 ELSE @[n]],
       !.eparent = [e \in EdgeIds |->
                      IF e \in ChildEdges(s, root) THEN newRoot ELSE @[e]],
       !.epos = [e \in EdgeIds |->
                   IF e \in ChildEdges(s, root)
                   THEN Minus(scenePos(s, EdgeItem(e)), root1Pos)
                   ELSE @[e]],
       !.erot = [e \in EdgeIds |->
                   IF e \in ChildEdges(s, root) THEN 0 ELSE @[e]]]

\* removeItem(root); canvasGraphList.removeOne(root); delete root
DisposeRoot(s, root) ==
    DeleteGraphObject([s EXCEPT !.glist = RemoveOne(@, root)], root)

\* Graph * newRoot = new Graph; newRoot->setPos(root1Pos)
StartJoin(s, root1) ==
    [NewGraph(s) EXCEPT !.gpos[NewGraphId(s)] = s.gpos[root1]]

\* qAtan2(v.y, v.x) in quarter turns, for a vector along an axis (or the
\* zero vector, whose angle is 0).
QuarterAngle(v) ==
    IF v[1] = 0 /\ v[2] > 0 THEN 1
    ELSE IF v[1] = 0 /\ v[2] < 0 THEN -1
    ELSE IF v[1] < 0 THEN 2
    ELSE 0

AlongAxis(v) == v[1] = 0 \/ v[2] = 0

\* angle = angle1 - angle2 of the four-node join
JoinAngle(s, a) ==
    QuarterAngle(Minus(scenePos(s, NodeItem(a.n1b)),
                       scenePos(s, NodeItem(a.n1a))))
        - QuarterAngle(Minus(scenePos(s, NodeItem(a.n2b)),
                             scenePos(s, NodeItem(a.n2a))))

\* (deltaX, deltaY) of the two-node join: from connectNode2a to
\* connectNode1a.
TwoNodeDelta(s, a) ==
    Minus(scenePos(s, NodeItem(a.n1a)), scenePos(s, NodeItem(a.n2a)))

\* Twice (deltaX, deltaY) of the four-node join: from the middle of
\* (cn2a, cn2b), read again after the rotation, to the middle of
\* (cn1a, cn1b).
FourNodeDelta2(s, cn1a, cn1b, a) ==
    Minus(Plus(cn1a, cn1b),
          Plus(scenePos(s, NodeItem(a.n2a)), scenePos(s, NodeItem(a.n2b))))

\* root2->moveBy(dx, dy)
moveBy(s, g, d) == [s EXCEPT !.gpos[g] = Plus(@, d)]

\* for (int i = 0; i < steps; i++) g->moveBy(d.x, d.y);
RECURSIVE MoveSteps(_, _, _, _)
MoveSteps(s, g, d, steps) ==
    IF steps = 0 THEN s ELSE MoveSteps(moveBy(s, g, d), g, d, steps - 1)

\* animate_x = delta.x / ANIMATION_STEPS, animate_y likewise
AnimateBy(delta) ==
    <<delta[1] \div ANIMATION_STEPS, delta[2] \div ANIMATION_STEPS>>

\* A two-node animation loop that stops one pass early.
AnimateTwoNodeShort(s, a, root2) ==
    MoveSteps(s, root2, AnimateBy(TwoNodeDelta(s, a)), ANIMATION_STEPS - 1)

\* The ANIMATION_STEPS passes of the two-node join's loop.
AnimateTwoNode(s, a, root2) ==
    MoveSteps(s, root2, AnimateBy(TwoNodeDelta(s, a)), ANIMATION_STEPS)

\* The two loops of the four-node join: ANIMATION_STEPS relative
\* rotations by angle / ANIMATION_STEPS, then ANIMATION_STEPS moves.
AnimateFourNode(s, a, root2) ==
    LET cn1a == scenePos(s, NodeItem(a.n1a))
        cn1b == scenePos(s, NodeItem(a.n1b))
        s1 == setRotation(s, root2, JoinAngle(s, a), TRUE)
        d2 == FourNodeDelta2(s1, cn1a, cn1b, a)
    IN  MoveSteps(s1, root2, AnimateBy(<<Half(d2[1]), Half(d2[2])>>),
                  ANIMATION_STEPS)

\* The decimal digits and what each stands for.
Digits == <<"0", "1", "2", "3", "4", "5", "6", "7", "8", "9">>

DigitValue(c) == IndexOf(Digits, c)

IsDigit(c) == Contains(Digits, c)

\* The digits of the largest int, 2147483647, and of the size of the
\* smallest, -2147483648.
IntMaxDigits == <<"2", "1", "4", "7", "4", "8", "3", "6", "4", "7">>
IntMinDigits == <<"2", "1", "4", "7", "4", "8", "3", "6", "4", "8">>

\* A sequence of digits without its leading zeros.
RECURSIVE StripZeros(_)
StripZeros(ds) ==
    IF Len(ds) > 1 /\ ds[1] = "0" THEN StripZeros(Tail(ds)) ELSE ds

\* x <= y for two sequences of digits of the same length.
RECURSIVE DigitsLeq(_, _)
DigitsLeq(x, y) ==
    IF x = <<>> THEN TRUE
    ELSE IF x[1] # y[1] THEN DigitValue(x[1]) < DigitValue(y[1])
    ELSE DigitsLeq(Tail(x), Tail(y))

\* The number these digits stand for is at most the one of 'limit'.
AtMost(ds, limit) ==
    LET d == StripZeros(ds)
    IN  \/ Len(d) < Len(limit)
        \/ Len(d) = Len(limit) /\ DigitsLeq(d, limit)

\* QString::toInt(&ok) in base 10, of which the code uses ok alone: true
\* for an optional sign followed by one digit or more that stand for a
\* number an int can hold, false for anything else.
toInt(l) ==
    LET signed == l # <<>> /\ l[1] \in {"-", "+"}
        ds == IF signed THEN Tail(l) ELSE l
        wellFormed == ds # <<>> /\ \A k \in 1..Len(ds) : IsDigit(ds[k])
        limit == IF signed /\ l[1] = "-" THEN IntMinDigits ELSE IntMaxDigits
    IN  [ok |-> wellFormed /\ AtMost(ds, limit)]

\* QString::number(n) for n >= 0
RECURSIVE number(_)
number(n) ==
    IF n < 10 THEN <<Digits[n + 1]>>
    ELSE number(n \div 10) \o <<Digits[(n % 10) + 1]>>

\* connectNode1a->getLabel().toInt(&isInt); if (isInt) the Node children
\* of newRoot other than the discarded anchors get the labels 0, 1, ...
\* in the order of childItems(), taken here as the order of the Node ids.
Renumber(s, a, newRoot, discarded) ==
    LET ns == Ascending(ChildNodes(s, newRoot) \ discarded)
    IN  IF toInt(s.label[a.n1a]).ok
        THEN [s EXCEPT !.label =
                 [n \in NodeIds |->
                     IF Contains(ns, n) THEN number(IndexOf(ns, n)) ELSE @[n]]]
        ELSE s

\* The two-node join from the rewiring to the renumbering.
TwoNodeMoved(s, a, root1, root2, newRoot, root1Pos) ==
    LET s1 == Rewire(s, a.n2a, a.n1a)
    IN  Renumber(MoveChildren(MoveChildren(s1, root1, newRoot, root1Pos),
                              root2, newRoot, root1Pos),
                 a, newRoot, {a.n2a})

\* The two-node join after its animation: from the rewiring to the disposal
\* of the old roots.
FinishTwoNodeJoin(s, a, root1, root2, newRoot, root1Pos) ==
    LET s2 == TwoNodeMoved(s, a, root1, root2, newRoot, root1Pos)
        s3 == [centerGraph(s2, newRoot) EXCEPT !.glist = Append(@, newRoot)]
        s4 == DeleteNodeObject(s3, a.n2a)
    IN  DisposeRoot(DisposeRoot(s4, root1), root2)

\* The four-node join from the rewiring to the renumbering.
FourNodeMoved(s, a, root1, root2, newRoot, root1Pos) ==
    LET s1 == Rewire(Rewire(s, a.n2a, a.n1a), a.n2b, a.n1b)
        s2 == Dedupe(s1, a)
    IN  Renumber(MoveChildren(MoveChildren(s2, root1, newRoot, root1Pos),
                              root2, newRoot, root1Pos),
                 a, newRoot, {a.n2a, a.n2b})

\* The four-node join after its animations.
FinishFourNodeJoin(s, a, root1, root2, newRoot, root1Pos) ==
    LET s3 == FourNodeMoved(s, a, root1, root2, newRoot, root1Pos)
        s4 == [centerGraph(s3, newRoot) EXCEPT !.glist = Append(@, newRoot)]
        s5 == DeleteNodeObject(DeleteNodeObject(s4, a.n2a), a.n2b)
    IN  DisposeRoot(DisposeRoot(s5, root1), root2)

\* Which join keyReleaseEvent('J') runs on these anchors: "four", "two" or
\* "none".
JoinKind(s, a) ==
    IF a.n1a # Null /\ a.n2a # Null /\ a.n1b # Null /\ a.n2b # Null
    THEN IF FourNodeGuard(s, a) THEN "four" ELSE "none"
    ELSE IF a.n1a # Null /\ a.n2a # Null
    THEN IF TwoNodeGuard(s, a) THEN "two" ELSE "none"
    ELSE "none"

\* keyReleaseEvent('J') when no event arrives while it animates: the scene
\* it leaves.
JoinScene(s, a) ==
    LET kind == JoinKind(s, a)
        newRoot == NewGraphId(s)
        root1 == s.nparent[a.n1a]
        root2 == s.nparent[a.n2a]
        root1Pos == s.gpos[root1]
    IN  IF kind = "four"
        THEN FinishFourNodeJoin(AnimateFourNode(StartJoin(s, root1), a, root2),
                                a, root1, root2, newRoot, root1Pos)
        ELSE IF kind = "two"
        THEN FinishTwoNodeJoin(AnimateTwoNode(StartJoin(s, root1), a, root2),
                               a, root1, root2, newRoot, root1Pos)
        ELSE s

\* The join on these anchors stays on the model's grid: its turn is a
\* number of quarter turns, and the halves and the animation steps it takes
\* are whole.
JoinExact(s, a) ==
    LET kind == JoinKind(s, a)
        newRoot == NewGraphId(s)
        root1 == s.nparent[a.n1a]
        root2 == s.nparent[a.n2a]
        root1Pos == s.gpos[root1]
        s0 == StartJoin(s, root1)
        cn1a == scenePos(s, NodeItem(a.n1a))
        cn1b == scenePos(s, NodeItem(a.n1b))
        d2 == FourNodeDelta2(setRotation(s0, root2, JoinAngle(s, a), TRUE),
                             cn1a, cn1b, a)
    IN  IF kind = "four"
        THEN /\ AlongAxis(Minus(cn1b, cn1a))
             /\ AlongAxis(Minus(scenePos(s, NodeItem(a.n2b)),
                                scenePos(s, NodeItem(a.n2a))))
             /\ d2[1] % (2 * ANIMATION_STEPS) = 0
             /\ d2[2] % (2 * ANIMATION_STEPS) = 0
             /\ CenterExact(FourNodeMoved(AnimateFourNode(s0, a, root2), a,
                                          root1, root2, newRoot, root1Pos),
                            newRoot)
        ELSE IF kind = "two"
        THEN /\ TwoNodeDelta(s, a)[1] % ANIMATION_STEPS = 0
             /\ TwoNodeDelta(s, a)[2] % ANIMATION_STEPS = 0
             /\ CenterExact(TwoNodeMoved(AnimateTwoNode(s0, a, root2), a,
                                         root1, root2, newRoot, root1Pos),
                            newRoot)
        ELSE TRUE

\* --------------------------------------------------------- anchor choice
\* The body of the loop without the test that the second Node of a pair
\* is in the Graph of the first.
SelectAnchorAnyGraph(s, a, item) ==
    IF a.n1a = Null
    THEN [a |-> [a EXCEPT !.n1a = item], done |-> TRUE]
    ELSE IF a.n1b = Null /\ a.n1a # item
    THEN [a |-> [a EXCEPT !.n1b = item], done |-> TRUE]
    ELSE IF a.n2a = Null
    THEN IF s.nparent[a.n1a] # s.nparent[item]
         THEN [a |-> [a EXCEPT !.n2a = item], done |-> TRUE]
         ELSE [a |-> a, done |-> FALSE]
    ELSE IF a.n2b = Null /\ a.n2a # item
    THEN [a |-> [a EXCEPT !.n2b = item], done |-> TRUE]
    ELSE [a |-> a, done |-> FALSE]

\* mousePressEvent, join mode: the body of the loop for one Node item.
\* The result has the anchors (.a) and whether the loop breaks (.done).
SelectAnchor(s, a, item) ==
    LET root(n) == IF s.nparent[n] # Null THEN s.nparent[n] ELSE n
        first ==
            IF a.n1a = Null
            THEN [a |-> [a EXCEPT !.n1a = item], done |-> TRUE]
            ELSE IF a.n1b = Null
            THEN IF root(item) = root(a.n1a) /\ a.n1a # item
                 THEN [a |-> [a EXCEPT !.n1b = item], done |-> TRUE]
                 ELSE [a |-> a, done |-> FALSE]
            ELSE [a |-> a, done |-> FALSE]
    IN  IF first.done THEN first
        ELSE IF a.n2a = Null
        THEN IF root(a.n1a) # root(item)
             THEN [a |-> [a EXCEPT !.n2a = item], done |-> TRUE]
             ELSE [a |-> a, done |-> FALSE]
        ELSE IF a.n2b = Null
        THEN IF root(item) = root(a.n2a) /\ a.n2a # item
             THEN [a |-> [a EXCEPT !.n2b = item], done |-> TRUE]
             ELSE [a |-> a, done |-> FALSE]
        ELSE [a |-> a, done |-> FALSE]

RECURSIVE SelectAnchors(_, _, _)
SelectAnchors(s, a, itemList) ==
    IF itemList = <<>> THEN a
    ELSE LET r == SelectAnchor(s, a, Head(itemList))
         IN  IF r.done THEN r.a ELSE SelectAnchors(s, r.a, Tail(itemList))

\* ----------------------------------------------------- initial canvases
\* A scene with nothing in it.
EmptyScene ==
    [nodes |-> {}, nparent |-> [n \in NodeIds |-> Null],
     nrot |-> [n \in NodeIds |-> 0], nchecked |-> [n \in NodeIds |-> 0],
     edgeList |-> [n \in NodeIds |-> <<>>],
     edges |-> {}, eparent |-> [e \in EdgeIds |-> Null],
     source |-> [e \in EdgeIds |-> Null], dest |-> [e \in EdgeIds |-> Null],
     erot |-> [e \in EdgeIds |-> 0], echecked |-> [e \in EdgeIds |-> 0],
     graphs |-> {}, grot |-> [g \in GraphIds |-> 0], glist |-> <<>>,
     npos |-> [n \in NodeIds |-> Origin],
     label |-> [n \in NodeIds |-> <<>>],
     epos |-> [e \in EdgeIds |-> Origin],
     gpos |-> [g \in GraphIds |-> Origin]]

\* Edge::Edge(sourceNode, destNode): the new Edge enters the edgeList of
\* its source and then of its dest; the library makes it a child of the
\* Graph it builds.
NewEdge(s, g, sn, dn) ==
    LET e == MinOf(EdgeIds \ s.edges)
        s1 == [s EXCEPT !.edges = @ \cup {e}, !.eparent[e] = g,
                        !.source[e] = sn, !.dest[e] = dn]
    IN  addEdge(addEdge(s1, sn, e), dn, e)

RECURSIVE NewEdges(_, _, _)
NewEdges(s, g, pairs) ==
    IF pairs = <<>> THEN s
    ELSE NewEdges(NewEdge(s, g, Head(pairs)[1], Head(pairs)[2]), g,
                  Tail(pairs))

\* A library graph dropped on the canvas at 'at' (dropEvent): one more
\* Graph, holding the Nodes ns at the places 'layout' gives them and one
\* Edge per pair, appended to canvasGraphList.
\* A Graph the rotation widget then turned to 'rot' has its children at
\* -rot (Graph::setRotation).
DropAt(s, ns, pairs, rot, at, layout) ==
    LET g == NewGraphId(s)
        s1 == [NewGraph(s) EXCEPT !.gpos[g] = at]
        s2 == [s1 EXCEPT !.nodes = @ \cup ns,
                         !.nparent = [n \in NodeIds |->
                                        IF n \in ns THEN g ELSE @[n]],
                         !.npos = [n \in NodeIds |->
                                     IF n \in ns THEN layout[n] ELSE @[n]],
                         !.glist = Append(@, g)]
    IN  setRotation(NewEdges(s2, g, pairs), g, rot, FALSE)

\* The same with the Graph at the scene's origin and its Nodes on top of
\* one another at the Graph's origin: the canvases of the specifications
\* that do not look at positions.
Drop(s, ns, pairs, rot) ==
    DropAt(s, ns, pairs, rot, Origin, [n \in NodeIds |-> Origin])

\* The spokes of a star on 1..MaxNodes with centre 1, alternately drawn
\* from and to the centre.
Spokes ==
    [k \in 1..(MaxNodes - 1) |->
        IF k % 2 = 1 THEN <<1, k + 1>> ELSE <<k + 1, 1>>]

\* The chords a star can carry: pairs of distinct outer nodes.
ChordPairs == {p \in (2..MaxNodes) \X (2..MaxNodes) : p[1] # p[2]}

\* Sequences of at most MaxChords chords, no two on the same two nodes.
ChordSeqs ==
    {c \in UNION {[1..k -> ChordPairs] : k \in 0..MaxChords} :
        \A i, j \in 1..Len(c) :
            i < j => /\ c[i] # c[j]
                     /\ c[i] # <<c[j][2], c[j][1]>>
                     /\ c[i][1] * MaxNodes + c[i][2]
                            < c[j][1] * MaxNodes + c[j][2]}

\* The path 1 - 2 - ... - n, edges alternately directed.
PathPairs(n) ==
    [k \in 1..(n - 1) |-> IF k % 2 = 1 THEN <<k, k + 1>> ELSE <<k + 1, k>>]

\* The star on 1..n with centre 1.
StarPairs(n) == SubSeq(Spokes, 1, n - 1)

\* Canvases for the whole set of handlers: one graph on CanvasNodes nodes,
\* a path, a star or a cycle.
CanvasScenes ==
    {Drop(EmptyScene, 1..CanvasNodes, pairs, 0) :
        pairs \in {PathPairs(CanvasNodes), StarPairs(CanvasNodes),
                   Append(PathPairs(CanvasNodes), <<CanvasNodes, 1>>)}}

\* Canvases for the split check: the star on MaxNodes nodes with every
\* choice of chords.
SplitScenes ==
    {Drop(EmptyScene, NodeIds, Spokes \o c, 0) : c \in ChordSeqs}
        \cup {Drop(EmptyScene, NodeIds, PathPairs(MaxNodes), 0)}

\* Canvases for the joins: two or three graphs dropped side by side, each
\* rotated or not.
JoinScenes ==
    LET ab(p, r1, r2) ==
            Drop(Drop(EmptyScene, {1, 2, 3}, p, r1), {4, 5}, <<<<4, 5>>>>, r2)
        abc(r1, r2) ==
            Drop(Drop(Drop(EmptyScene, {1, 2}, <<<<2, 1>>>>, r1),
                      {3, 4}, <<<<3, 4>>>>, r2), {5}, <<>>, 0)
    IN  {ab(p, r1, r2) :
            p \in {PathPairs(3), Append(PathPairs(3), <<3, 1>>)},
            r1 \in 0..MaxRot, r2 \in 0..MaxRot}
        \cup {abc(r1, r2) : r1 \in 0..MaxRot, r2 \in 0..MaxRot}

\* Places for the Nodes 1..CanvasNodes of a dropped graph, in the Graph's
\* coordinates: a square with the origin at a corner, and a bent line.
\* Coordinates are multiples of four, so that the first halves taken of
\* them are whole.
Layouts ==
    {<<<<0, 0>>, <<4, 0>>, <<4, 4>>, <<0, 4>>, Origin>>,
     <<<<-4, 0>>, <<0, 0>>, <<4, 0>>, <<8, 4>>, Origin>>}

\* Where the graph is dropped.
DropPlaces == {<<8, 4>>}

\* Canvases whose Nodes have places: one graph on CanvasNodes nodes, a
\* path, a star or a cycle, turned by 0 to MaxQuarter quarter turns.
GeomScenes ==
    {DropAt(EmptyScene, 1..CanvasNodes, pairs, rot, at, layout) :
        pairs \in {PathPairs(CanvasNodes), StarPairs(CanvasNodes),
                   Append(PathPairs(CanvasNodes), <<CanvasNodes, 1>>)},
        rot \in 0..MaxQuarter, at \in DropPlaces, layout \in Layouts}

\* Places for the Nodes of the graphs that are joined: Nodes 1, 2, 3 on
\* three corners of a square or with Node 3 further away, Nodes 4 and 5 on
\* a vertical or a horizontal line, as far apart as Nodes 1 and 2 or twice
\* as far.  Coordinates are multiples of twenty, so that the steps of the
\* animations and the halves taken afterwards are whole.
JoinLayouts ==
    {<<<<0, 0>>, <<20, 0>>, <<20, 20>>, <<0, 0>>, <<0, 20>>>>,
     <<<<0, 0>>, <<20, 0>>, <<20, 20>>, <<20, 0>>, <<-20, 0>>>>,
     <<<<0, 0>>, <<20, 0>>, <<60, 20>>, <<20, 0>>, <<-20, 0>>>>}

\* Canvases for the joins of graphs whose Nodes have places: a path or a
\* triangle on Nodes 1, 2, 3 dropped at (0, 0) and an Edge on Nodes 4, 5
\* dropped at (40, 20), each turned by 0 to MaxQuarter quarter turns.
JoinGeomScenes ==
    {DropAt(DropAt(EmptyScene, {1, 2, 3}, p, r1, Origin, layout),
            {4, 5}, <<<<4, 5>>>>, r2, <<40, 20>>, layout) :
        p \in {PathPairs(3), Append(PathPairs(3), <<3, 1>>)},
        r1 \in 0..MaxQuarter, r2 \in 0..MaxQuarter, layout \in JoinLayouts}

\* Labels a Node can carry: none, letters, numbers with and without a
\* sign, the largest int and the number after it, digits followed by a
\* letter.
FirstLabels ==
    {<<>>, <<"a">>, <<"0">>, <<"1", "2">>, <<"-", "1">>, <<"-">>,
     <<"1", "a">>,
     <<"2", "1", "4", "7", "4", "8", "3", "6", "4", "7">>,
     <<"2", "1", "4", "7", "4", "8", "3", "6", "4", "8">>}

OtherLabels == {<<"7">>}

\* Canvases for the renumbering: a path on Nodes 1, 2, 3 and an Edge on
\* Nodes 4, 5, or three graphs, with a label of FirstLabels on Node 1, one
\* of OtherLabels on Node 4 and v2, v3, v5 on the others.
LabelScenes ==
    LET lab(x, y) ==
            [n \in NodeIds |->
                IF n = 1 THEN x ELSE IF n = 4 THEN y
                ELSE <<"v", Digits[n + 1]>>]
        ab == Drop(Drop(EmptyScene, {1, 2, 3}, PathPairs(3), 0),
                   {4, 5}, <<<<4, 5>>>>, 0)
        abc == Drop(Drop(Drop(EmptyScene, {1, 2}, <<<<2, 1>>>>, 0),
                         {3, 4}, <<<<3, 4>>>>, 0), {5}, <<>>, 0)
    IN  {[s EXCEPT !.label = lab(x, y)] :
            s \in {ab, abc}, x \in FirstLabels, y \in OtherLabels}

\* Canvases for the joins under input: three graphs.
PumpScenes ==
    {Drop(Drop(Drop(EmptyScene, {1, 2}, <<<<2, 1>>>>, 0),
               {3, 4}, <<<<3, 4>>>>, 0), {5}, <<>>, 0)}

NoEvent ==
    [op |-> "none", kind |-> "", arg |-> Null, affected |-> <<>>,
     newGraphs |-> <<>>, passes |-> <<>>]

\* No call of boundingBox on its own.
NoBoxCall ==
    [items |-> <<>>, useNodeSizes |-> FALSE, returned |-> FALSE,
     result |-> <<>>]

\* The program with the scene s on its canvas, in mode m, the anchor slots
\* holding a, no handler run yet, and 'call' the call of boundingBox to
\* make.
InitCall(s, m, a, call) ==
    /\ nodes = s.nodes
    /\ nparent = s.nparent
    /\ nrot = s.nrot
    /\ nchecked = s.nchecked
    /\ edgeList = s.edgeList
    /\ edges = s.edges
    /\ eparent = s.eparent
    /\ source = s.source
    /\ dest = s.dest
    /\ erot = s.erot
    /\ echecked = s.echecked
    /\ graphs = s.graphs
    /\ grot = s.grot
    /\ canvasGraphList = s.glist
    /\ npos = s.npos
    /\ label = s.label
    /\ epos = s.epos
    /\ gpos = s.gpos
    /\ connectNode1a = a.n1a
    /\ connectNode1b = a.n1b
    /\ connectNode2a = a.n2a
    /\ connectNode2b = a.n2b
    /\ modeType = m
    /\ freestyleGraph = Null
    /\ node1 = Null
    /\ created = 0
    /\ emitted = <<>>
    /\ lastEvent = NoEvent
    /\ joinStack = <<>>
    /\ crashed = FALSE
    /\ boxCall = call

\* The same with no call of boundingBox on its own.
InitWith(s, m, a) == InitCall(s, m, a, NoBoxCall)

Init == \E s \in CanvasScenes : InitWith(s, "drag", NoAnchors)

\* -------------------------------------------------------------- handlers
\* What a local Graph pointer of a suspended keyReleaseEvent holds once the
\* Graph has been deleted.
Dangling == -1

Event(op, kind, arg, affected, newGraphs) ==
    [op |-> op, kind |-> kind, arg |-> arg, affected |-> affected,
     newGraphs |-> newGraphs, passes |-> <<>>]

\* The number of handlers the suspended joins have dispatched.
RECURSIVE EventsUpTo(_, _)
EventsUpTo(stack, k) ==
    IF k = 0 THEN 0 ELSE stack[k].events + EventsUpTo(stack, k - 1)

PumpEvents(stack) == EventsUpTo(stack, Len(stack))

\* An input event is dispatched from the main loop, or from the
\* processEvents() call of the innermost join animation.
CanHandle ==
    /\ ~crashed
    /\ joinStack # <<>> =>
          /\ PumpEvents(joinStack) < MaxPumpEvents
          /\ joinStack[Len(joinStack)].step <= MaxInputStep

\* The suspended joins after a handler that left the Graphs 'live': a
\* root pointer whose Graph was deleted dangles.
Suspended(stack, live) ==
    [k \in 1..Len(stack) |->
        [stack[k] EXCEPT
           !.root1 = IF @ \in live THEN @ ELSE Dangling,
           !.root2 = IF @ \in live THEN @ ELSE Dangling,
           !.events = IF k = Len(stack) THEN @ + 1 ELSE @]]

\* The state a handler leaves.
HandleView(s, a, m, fg, n1, signals, ev) ==
    /\ SetScene(s)
    /\ SetAnchors(a)
    /\ modeType' = m
    /\ freestyleGraph' = fg
    /\ node1' = n1
    /\ emitted' = signals
    /\ lastEvent' = ev
    /\ joinStack' = Suspended(joinStack, s.graphs)
    /\ crashed' = crashed
    /\ boxCall' = boxCall

\* The state a handler leaves that does not touch CanvasView::node1.
Handle(s, a, m, fg, signals, ev) ==
    /\ HandleView(s, a, m, fg, node1, signals, ev)
    /\ created' = created

\* CanvasView::setMode on leaving freestyle mode with a freestyleGraph that
\* has children: the Nodes move by -center and the Graph to center, the
\* centre of the Nodes in the scene.
FinalizeFreestyle(s, g) ==
    LET center == boundingBox(ChildBoxItems(s, g), FALSE).center
    IN  [s EXCEPT
           !.npos = [n \in NodeIds |->
                       IF n \in ChildNodes(s, g) THEN Minus(@[n], center)
                       ELSE @[n]],
           !.gpos[g] = center]

\* CanvasView::setMode(m), which ends in CanvasScene::setCanvasMode(m)
SetMode(m) ==
    /\ CanHandle
    /\ m # modeType
    /\ LET s1 == IF modeType = "freestyle" /\ freestyleGraph # Null
                 THEN IF ChildItemsEmpty(Scene, freestyleGraph)
                      THEN DeleteGraphObject(Scene, freestyleGraph)
                      ELSE FinalizeFreestyle(Scene, freestyleGraph)
                 ELSE Scene
           s2 == IF m = "freestyle" THEN NewGraph(s1) ELSE s1
           fg == IF m = "freestyle" THEN NewGraphId(s1) ELSE Null
       IN  HandleView(s2, NoAnchors, m, fg, Null, <<>>,
                      Event("setMode", m, Null, <<>>, <<>>))
    /\ created' = created

\* CanvasView::createNode(pos): a Node with rotation 0 and no label, a
\* child of freestyleGraph at pos.
createNode(s, fg, pos) ==
    LET n == MinOf(NodeIds \ s.nodes)
    IN  [s EXCEPT !.nodes = @ \cup {n}, !.nparent[n] = fg, !.nrot[n] = 0,
                  !.npos[n] = pos]

\* CanvasView::mouseDoubleClickEvent, freestyle mode: a Node is created
\* at the cursor; a freestyleGraph that now has one child enters
\* canvasGraphList; node1 is forgotten.
DoubleClickFree(pt) ==
    /\ CanHandle
    /\ modeType = "freestyle"
    /\ nodes # NodeIds
    /\ created < MaxCreated
    /\ created' = created + 1
    /\ LET s1 == createNode(Scene, freestyleGraph, pt)
           s2 == IF Cardinality(ChildNodes(s1, freestyleGraph))
                       + Cardinality(ChildEdges(s1, freestyleGraph)) = 1
                 THEN [s1 EXCEPT !.glist = Append(@, freestyleGraph)]
                 ELSE s1
       IN  HandleView(s2, Anchors, modeType, freestyleGraph, Null,
                      <<"nodeCreated">>,
                      Event("createNode", "", MinOf(NodeIds \ nodes),
                            <<>>, <<>>))

\* CanvasView::addEdgeToScene(node1, node2) with createEdge: the new Edge
\* becomes a child of the Graph of both Nodes, or the children of the two
\* Graphs move to a new Graph at the scene's origin (itemPos =
\* item->scenePos(), setParentItem(root), setPos(itemPos),
\* setRotation(0)), the Edge becomes its child and the two Graphs are
\* deleted, freestyleGraph being replaced when it is one of them.  The
\* result has the scene (.sc) and freestyleGraph (.fg).
addEdgeToScene(s, fg, n1, n2) ==
    LET parent1 == s.nparent[n1]
        parent2 == s.nparent[n2]
        root == NewGraphId(s)
        s1 == MoveChildren(NewGraph(s), parent1, root, Origin)
        s2 == MoveChildren(s1, parent2, root, Origin)
        s3 == [NewEdge(s2, root, n1, n2) EXCEPT !.glist = Append(@, root)]
        replace == parent1 = fg \/ parent2 = fg
        s4 == IF replace THEN NewGraph(s3) ELSE s3
    IN  IF parent1 = parent2
        THEN [sc |-> NewEdge(s, parent1, n1, n2), fg |-> fg]
        ELSE [sc |-> DisposeRoot(DisposeRoot(s4, parent1), parent2),
              fg |-> IF replace THEN NewGraphId(s3) ELSE fg]

\* The test for an existing Edge that finds none.
EdgeExistsNever(s, n1, n2) == FALSE

\* "Prevent edges being made if one already exists between source and
\* dest": the loop over node1->edgeList.
EdgeExists(s, n1, n2) ==
    \E i \in 1..Len(s.edgeList[n1]) :
        LET e == s.edgeList[n1][i]
        IN  \/ s.source[e] = n1 /\ s.dest[e] = n2
            \/ s.source[e] = n2 /\ s.dest[e] = n1

\* The loop of CanvasView::mousePressEvent, freestyle mode, over the Nodes
\* under the cursor.  f has the scene (.sc), freestyleGraph (.fg), node1
\* and node2 (.n1, .n2) and the Edge created (.edge, Null if none).
RECURSIVE FreestyleLoop(_, _)
FreestyleLoop(f, itemList) ==
    IF itemList = <<>> THEN f
    ELSE LET item == Head(itemList)
             f1 == IF f.n1 = Null THEN [f EXCEPT !.n1 = item, !.n2 = Null]
                   ELSE IF f.n2 = Null /\ item # f.n1
                   THEN [f EXCEPT !.n2 = item]
                   ELSE f
             r == addEdgeToScene(f1.sc, f1.fg, f1.n1, f1.n2)
         IN  IF f1.n1 # Null /\ f1.n2 # Null /\ f1.n1 # f1.n2
             THEN IF EdgeExists(f1.sc, f1.n1, f1.n2)
                  THEN [f1 EXCEPT !.n1 = f1.n2, !.n2 = Null]
                  ELSE [sc |-> r.sc, fg |-> r.fg, n1 |-> f1.n2, n2 |-> Null,
                        edge |-> MinOf(EdgeIds \ f1.sc.edges)]
             ELSE FreestyleLoop(f1, Tail(itemList))

\* CanvasView::mousePressEvent, freestyle mode, left button: the Nodes
\* under the cursor; none of them is a click in empty space, which
\* forgets node1.
MousePressFree(itemList) ==
    /\ CanHandle
    /\ modeType = "freestyle"
    /\ node1 # Null /\ itemList # <<>> =>
          edges # EdgeIds /\ created < MaxCreated
    /\ \E f \in {FreestyleLoop([sc |-> Scene, fg |-> freestyleGraph,
                                 n1 |-> node1, n2 |-> Null, edge |-> Null],
                                itemList)} :
           HandleView(f.sc, Anchors, modeType, f.fg,
                      IF itemList = <<>> THEN Null ELSE f.n1,
                      IF f.edge # Null THEN <<"edgeCreated">> ELSE <<>>,
                      Event("pressFree", "", f.edge, <<node1>> \o itemList,
                            <<>>))
           /\ created' = created + (IF f.edge # Null THEN 1 ELSE 0)

\* CanvasScene::mousePressEvent, join mode: the Nodes under the cursor
MousePressJoin(itemList) ==
    /\ CanHandle
    /\ modeType = "join"
    /\ Handle(Scene, SelectAnchors(Scene, Anchors, itemList), modeType,
              freestyleGraph, <<>>,
              Event("pressJoin", "", itemList[1], <<>>, <<>>))

\* CanvasScene::mousePressEvent, del mode, the first item a Node
MousePressDelNode(node) ==
    /\ CanHandle
    /\ modeType = "del"
    /\ \E r \in {DeleteNodeScene(Scene, node)} :
           Handle(r.sc, Anchors, modeType, freestyleGraph,
                  SeparatedSignal(r) \o <<"somethingChanged">>,
                  [Event("deleteNode", "", node, r.adjacentNodes,
                         r.newGraphs) EXCEPT !.passes = r.passes])

\* CanvasScene::mousePressEvent, del mode, the first item an Edge
MousePressDelEdge(edge) ==
    /\ CanHandle
    /\ modeType = "del"
    /\ \E r \in {DeleteEdgeScene(Scene, edge)} :
           Handle(r.sc, Anchors, modeType, freestyleGraph,
                  SeparatedSignal(r) \o <<"somethingChanged">>,
                  [Event("deleteEdge", "", edge, r.adjacentNodes,
                         r.newGraphs) EXCEPT !.passes = r.passes])

\* CanvasScene::mouseDoubleClickEvent, del mode, on an item of Graph g
DoubleClickDel(g) ==
    /\ CanHandle
    /\ modeType = "del"
    /\ ~ChildItemsEmpty(Scene, g)
    /\ Handle(DisposeRoot(Scene, g), Anchors, modeType, freestyleGraph,
              <<"somethingChanged">>,
              Event("deleteGraph", "", g, <<>>, <<>>))

\* The rotation widget of the "Edit Canvas Graph" tab, for a selected
\* Graph: graph->setRotation(-1 * netRotation, true)
Rotate(g, amount) ==
    /\ CanHandle
    /\ modeType = "select"
    /\ ~ChildItemsEmpty(Scene, g)
    /\ grot[g] + amount \in 0..MaxRot
    /\ Handle(setRotation(Scene, g, amount, TRUE), Anchors, modeType,
              freestyleGraph, <<>>,
              Event("rotate", "", g, <<>>, <<>>))

\* The four-node join deletes connectNode2a and then connectNode2b: with
\* both slots on one Node the second delete is a double free, after which
\* the program crashes or runs on as if nothing had happened.
JoinOutcomes(kind, a) ==
    IF kind = "four" /\ a.n2a = a.n2b THEN {"crash", "continue"}
    ELSE {"continue"}

\* The process has died: nothing else changes any more.
Crash ==
    /\ crashed' = TRUE
    /\ UNCHANGED <<sceneVars, anchorVars, modeType, freestyleGraph, node1,
                   created, emitted, lastEvent, joinStack, boxCall>>

\* CanvasScene::keyReleaseEvent(Qt::Key_J) when its calls of
\* processEvents() find no input event to dispatch.
KeyJ ==
    /\ ~crashed
    /\ joinStack = <<>>
    /\ JoinExact(Scene, Anchors)
    /\ \E kind \in {JoinKind(Scene, Anchors)} :
       \E s2 \in {JoinScene(Scene, Anchors)} :
           \E outcome \in JoinOutcomes(kind, Anchors) :
              IF outcome = "crash" THEN Crash
              ELSE Handle(s2, NoAnchors, modeType, freestyleGraph,
                          IF kind = "none" THEN <<>> ELSE <<"graphJoined">>,
                          Event("keyJ", kind,
                                Cardinality(edges) - Cardinality(s2.edges),
                                <<connectNode1a, connectNode1b,
                                  connectNode2a, connectNode2b>>, <<>>))

ItemLists ==
    {l \in UNION {[1..k -> nodes] : k \in 1..MaxOverlap} :
        \A i, j \in 1..Len(l) : i # j => l[i] # l[j]}

Next ==
    \/ \E m \in Modes : SetMode(m)
    \/ \E l \in ItemLists : MousePressJoin(l)
    \/ \E n \in nodes : MousePressDelNode(n)
    \/ \E e \in edges : MousePressDelEdge(e)
    \/ \E g \in graphs : DoubleClickDel(g)
    \/ \E g \in graphs : \E amount \in {-1, 1} : Rotate(g, amount)
    \/ KeyJ

Spec == Init /\ [][Next]_vars

\* ------------------------------------------------- specification SpecSplit
\* Deletions alone, in del mode, on the star with every choice of chords.
InitSplit == \E s \in SplitScenes : InitWith(s, "del", NoAnchors)

NextSplit ==
    \/ \E n \in nodes : MousePressDelNode(n)
    \/ \E e \in edges : MousePressDelEdge(e)

SpecSplit == InitSplit /\ [][NextSplit]_vars

\* -------------------------------------------------- specification SpecJoin
\* Anchor selection and joins alone, in join mode, on canvases of two or
\* three graphs.
InitJoin == \E s \in JoinScenes : InitWith(s, "join", NoAnchors)

NextJoin ==
    \/ \E l \in ItemLists : MousePressJoin(l)
    \/ KeyJ

SpecJoin == InitJoin /\ [][NextJoin]_vars

\* ---------------------------------------------- specification SpecJoinGeom
\* Joins of two graphs whose Nodes have places.
InitJoinGeom == \E s \in JoinGeomScenes : InitWith(s, "join", NoAnchors)

NextJoinGeom ==
    \/ \E l \in ItemLists : MousePressJoin(l)
    \/ KeyJ

SpecJoinGeom == InitJoinGeom /\ [][NextJoinGeom]_vars

\* ------------------------------------------------- specification SpecFree
\* Freestyle editing on a canvas that starts with one dropped graph, turned
\* or not: Nodes and Edges are created, the mode changes, Graphs are
\* turned in select mode.
FreePlaces == {Origin, <<40, 20>>}

FreeModes == {"freestyle", "select"}

FreeScenes ==
    {Drop(EmptyScene, {1, 2, 3}, PathPairs(3), rot) : rot \in 0..MaxRot}

InitFree == \E s \in FreeScenes : InitWith(s, "drag", NoAnchors)

NextFree ==
    \/ \E m \in FreeModes : SetMode(m)
    \/ \E pt \in FreePlaces : DoubleClickFree(pt)
    \/ \E l \in ItemLists \cup {<<>>} : MousePressFree(l)
    \/ \E g \in graphs : \E amount \in {-1, 1} : Rotate(g, amount)

SpecFree == InitFree /\ [][NextFree]_vars

\* ------------------------------------------------- specification SpecEdit
\* Freestyle editing, deletions and joins on a canvas that starts with two
\* graphs, an Edge and a Node, every Node at the scene's origin; freestyle
\* mode creates MaxEditCreated Nodes and Edges at most.
EditModes == {"freestyle", "del", "join"}

EditScenes ==
    {Drop(Drop(EmptyScene, {1, 2}, <<<<1, 2>>>>, 0), {3}, <<>>, 0)}

InitEdit == \E s \in EditScenes : InitWith(s, "drag", NoAnchors)

NextEdit ==
    \/ \E m \in EditModes : SetMode(m)
    \/ created < MaxEditCreated /\ DoubleClickFree(Origin)
    \/ \E l \in ItemLists :
          (node1 # Null => created < MaxEditCreated) /\ MousePressFree(l)
    \/ \E l \in ItemLists : MousePressJoin(l)
    \/ \E n \in nodes : MousePressDelNode(n)
    \/ \E e \in edges : MousePressDelEdge(e)
    \/ KeyJ

SpecEdit == InitEdit /\ [][NextEdit]_vars

\* ------------------------------------------------ specification SpecLabel
\* Joins of graphs whose Nodes carry labels.
InitLabel == \E s \in LabelScenes : InitWith(s, "join", NoAnchors)

NextLabel ==
    \/ \E l \in ItemLists : MousePressJoin(l)
    \/ KeyJ

SpecLabel == InitLabel /\ [][NextLabel]_vars

\* ----------------------------------------------- specification SpecAnchors
\* The 'J' key released with any Nodes whatever in the four anchor slots.
AnchorChoices(s) ==
    [n1a : s.nodes \cup {Null}, n1b : s.nodes \cup {Null},
     n2a : s.nodes \cup {Null}, n2b : s.nodes \cup {Null}]

InitAnchors ==
    \E s \in JoinScenes : \E a \in AnchorChoices(s) : InitWith(s, "join", a)

NextAnchors == KeyJ

SpecAnchors == InitAnchors /\ [][NextAnchors]_vars

\* -------------------------------------------------- specification SpecPump
(***************************************************************************)
(* keyReleaseEvent('J') with its animation loops unrolled.  Each pass of a *)
(* loop moves or turns root2 and then calls processEvents(AllEvents),      *)
(* which dispatches whatever input has arrived: a mode button, a mouse     *)
(* press, another 'J'.  A join inside its loops is a record of joinStack:  *)
(* its locals root1, root2 and newRoot, the number of processEvents()      *)
(* calls made so far (step), and, for observation only, the anchors at the *)
(* key release (a) and the number of handlers its calls dispatched         *)
(* (events).  The anchors themselves are the members connectNode1a..2b,    *)
(* read again after the loops.                                             *)
(***************************************************************************)
Steps(kind) ==
    IF kind = "four" THEN 2 * ANIMATION_STEPS ELSE ANIMATION_STEPS

Top == joinStack[Len(joinStack)]

\* The turn of root2 in one pass of the four-node join's first loop, in
\* steps of the rotation widget; it depends on where the anchors lie.
Turns == {0, 1}

\* Key 'J' released, from the main loop or from a processEvents() call:
\* a join whose test passes creates newRoot, makes the first pass of its
\* first loop and calls processEvents(); otherwise the anchors are reset.
KeyJStart(turn) ==
    /\ CanHandle
    /\ Len(joinStack) < MaxDepth
    /\ LET kind == JoinKind(Scene, Anchors)
           root1 == nparent[connectNode1a]
           s1 == StartJoin(Scene, root1)
           root2 == nparent[connectNode2a]
           delta == TwoNodeDelta(Scene, Anchors)
           animate == IF kind = "two"
                      THEN <<delta[1] \div ANIMATION_STEPS,
                             delta[2] \div ANIMATION_STEPS>>
                      ELSE Origin
           s2 == IF kind = "four" THEN setRotation(s1, root2, turn, TRUE)
                 ELSE moveBy(s1, root2, animate)
           frame == [kind |-> kind, step |-> 1,
                     root1 |-> root1, root2 |-> root2,
                     newRoot |-> NewGraphId(Scene), turn |-> turn,
                     root1Pos |-> gpos[root1],
                     cn1a |-> scenePos(Scene, NodeItem(connectNode1a)),
                     cn1b |-> IF kind = "four"
                              THEN scenePos(Scene, NodeItem(connectNode1b))
                              ELSE Origin,
                     animate |-> animate,
                     a |-> Anchors, events |-> 0]
       IN  IF kind = "none"
           THEN /\ turn = 0
                /\ Handle(Scene, NoAnchors, modeType, freestyleGraph, <<>>,
                          Event("keyJ", kind, 0, <<>>, <<>>))
           ELSE /\ kind = "four" \/ turn = 0
                /\ kind = "two" =>
                      /\ delta[1] % ANIMATION_STEPS = 0
                      /\ delta[2] % ANIMATION_STEPS = 0
                /\ SetScene(s2)
                /\ joinStack' = Append(Suspended(joinStack, s2.graphs), frame)
                /\ emitted' = <<>>
                /\ lastEvent' = Event("keyJStart", kind, 0, <<>>, <<>>)
                /\ UNCHANGED <<anchorVars, modeType, freestyleGraph, node1,
                               created, crashed, boxCall>>

\* What the next pass of the loop can do: it uses root2, and between the
\* two loops of the four-node join connectNode2a and connectNode2b.
StepOutcomes ==
    IF Top.kind = "four" /\ Top.step = ANIMATION_STEPS
          /\ (connectNode2a = Null \/ connectNode2b = Null)
    THEN {"crash"}
    ELSE IF Top.root2 = Dangling THEN {"crash", "continue"}
    ELSE {"continue"}

\* processEvents() returns to the innermost join, which makes the next
\* pass of its loop and calls processEvents() again.
AnimStep ==
    /\ ~crashed
    /\ joinStack # <<>>
    /\ Top.step < Steps(Top.kind)
    /\ \E outcome \in StepOutcomes :
          IF outcome = "crash" THEN Crash
          ELSE LET d2 == FourNodeDelta2(Scene, Top.cn1a, Top.cn1b, Anchors)
                   animate ==
                       IF Top.kind = "four" /\ Top.step = ANIMATION_STEPS
                       THEN <<d2[1] \div (2 * ANIMATION_STEPS),
                              d2[2] \div (2 * ANIMATION_STEPS)>>
                       ELSE Top.animate
               IN
               /\ (Top.kind = "four" /\ Top.step = ANIMATION_STEPS) =>
                     /\ d2[1] % (2 * ANIMATION_STEPS) = 0
                     /\ d2[2] % (2 * ANIMATION_STEPS) = 0
               /\ SetScene(IF Top.root2 = Dangling THEN Scene
                           ELSE IF Top.kind = "four"
                                   /\ Top.step < ANIMATION_STEPS
                           THEN setRotation(Scene, Top.root2, Top.turn, TRUE)
                           ELSE moveBy(Scene, Top.root2, animate))
               /\ joinStack' = [joinStack EXCEPT
                                  ![Len(joinStack)].step = @ + 1,
                                  ![Len(joinStack)].animate = animate]
               /\ emitted' = <<>>
               /\ lastEvent' = Event("animStep", Top.kind, 0, <<>>, <<>>)
               /\ UNCHANGED <<anchorVars, modeType, freestyleGraph, node1,
                              created, crashed, boxCall>>

\* What the code after the loops can do: it dereferences the anchor
\* members (a null one ends the program) and root1 and root2 (a deleted
\* Graph may end it, or read as a Graph without children).
FinishOutcomes ==
    IF \/ connectNode1a = Null
       \/ connectNode2a = Null
       \/ Top.kind = "four" /\ (connectNode1b = Null \/ connectNode2b = Null)
    THEN {"crash"}
    ELSE IF Top.root1 = Dangling \/ Top.root2 = Dangling
            \/ (Top.kind = "four" /\ connectNode2a = connectNode2b)
    THEN {"crash", "continue"}
    ELSE {"continue"}

\* The last processEvents() call returns to the innermost join, which
\* rewires, reparents, disposes, raises graphJoined and resets the anchors.
JoinFinish ==
    /\ ~crashed
    /\ joinStack # <<>>
    /\ Top.step = Steps(Top.kind)
    /\ \E outcome \in FinishOutcomes :
          IF outcome = "crash" THEN Crash
          ELSE LET s2 == IF Top.kind = "four"
                         THEN FinishFourNodeJoin(Scene, Anchors, Top.root1,
                                                 Top.root2, Top.newRoot,
                                                 Top.root1Pos)
                         ELSE FinishTwoNodeJoin(Scene, Anchors, Top.root1,
                                                Top.root2, Top.newRoot,
                                                Top.root1Pos)
                   rest == SubSeq(joinStack, 1, Len(joinStack) - 1)
               IN  /\ SetScene(s2)
                   /\ SetAnchors(NoAnchors)
                   /\ joinStack' = [k \in 1..Len(rest) |->
                                       [Suspended(rest, s2.graphs)[k]
                                           EXCEPT !.events = rest[k].events]]
                   /\ emitted' = <<"graphJoined">>
                   /\ lastEvent' = Event("joinFinish", Top.kind,
                                         Cardinality(edges)
                                             - Cardinality(s2.edges),
                                         <<connectNode1a, connectNode1b,
                                           connectNode2a, connectNode2b>>,
                                         <<>>)
                   /\ UNCHANGED <<modeType, freestyleGraph, node1,
                                  created, crashed, boxCall>>

\* Input that processEvents() dispatches while a join animates.
PumpSetMode(m) == joinStack # <<>> /\ SetMode(m)
PumpDelNode(n) == joinStack # <<>> /\ MousePressDelNode(n)
PumpDelEdge(e) == joinStack # <<>> /\ MousePressDelEdge(e)

InitPump == \E s \in PumpScenes : InitWith(s, "join", NoAnchors)

NextPump ==
    \/ \E l \in ItemLists : MousePressJoin(l)
    \/ \E turn \in Turns : KeyJStart(turn)
    \/ AnimStep
    \/ JoinFinish
    \/ \E m \in {"join", "del"} : PumpSetMode(m)
    \/ \E n \in nodes : PumpDelNode(n)
    \/ \E e \in edges : PumpDelEdge(e)

SpecPump == InitPump /\ [][NextPump]_vars

\* --------------------------------------------------- specification SpecRot
\* Graph::setRotation called with any amount, relative or absolute, on the
\* Graphs of a canvas.
ApplySetRotation(g, amount, relative) ==
    /\ CanHandle
    /\ (IF relative THEN grot[g] + amount ELSE amount) \in -MaxTurn..MaxTurn
    /\ Handle(setRotation(Scene, g, amount, relative), Anchors, modeType,
              freestyleGraph, <<>>,
              Event("setRotation",
                    IF relative THEN "relative" ELSE "absolute",
                    amount, <<g>>, <<>>))

InitRot == \E s \in JoinScenes : InitWith(s, "select", NoAnchors)

NextRot ==
    \E g \in graphs : \E amount \in -MaxTurn..MaxTurn :
        \E relative \in BOOLEAN : ApplySetRotation(g, amount, relative)

SpecRot == InitRot /\ [][NextRot]_vars

\* -------------------------------------------------- specification SpecGeom
\* Graph::centerGraph() called on a Graph of the canvas.
CenterGraphCall(g) ==
    /\ CanHandle
    /\ CenterExact(Scene, g)
    /\ Handle(centerGraph(Scene, g), Anchors, modeType, freestyleGraph, <<>>,
              Event("centerGraph",
                    IF lastEvent.op = "centerGraph" /\ lastEvent.arg = g
                    THEN "again" ELSE "first",
                    g, <<>>, <<>>))

InitGeom == \E s \in GeomScenes : InitWith(s, "del", NoAnchors)

NextGeom ==
    \/ \E g \in graphs : CenterGraphCall(g)
    \/ \E n \in nodes : MousePressDelNode(n)
    \/ \E e \in edges : MousePressDelEdge(e)

SpecGeom == InitGeom /\ [][NextGeom]_vars

\* --------------------------------------------------- specification SpecBox
\* The children a Graph at DropPlace can hold: Nodes on the grid, each with
\* a radius, and Edges.
BoxItems ==
    {[type |-> "node", x |-> 2 * i, y |-> 2 * j, r |-> 2 + 2 * k,
      RGx |-> 2 * i - 8, RGy |-> 2 * j - 4] :
        i \in 0..MaxCoord, j \in 0..1, k \in 0..MaxRadius}
        \cup {[type |-> "edge"]}

\* Graph::boundingBox(&center, useNodeSizes, &RGcenter) called on a Graph
\* with these children.
BoundingBoxCall ==
    /\ ~crashed
    /\ ~boxCall.returned
    /\ boxCall' = [boxCall EXCEPT
                     !.returned = TRUE,
                     !.result = boundingBox(boxCall.items,
                                            boxCall.useNodeSizes)]
    /\ lastEvent' = Event("boundingBox", "", Null, <<>>, <<>>)
    /\ UNCHANGED <<sceneVars, anchorVars, modeType, freestyleGraph, node1,
                   created, emitted, joinStack, crashed>>

InitBox ==
    \E k \in 0..MaxBoxItems : \E items \in [1..k -> BoxItems] :
        \E useNodeSizes \in BOOLEAN :
            InitCall(EmptyScene, "drag", NoAnchors,
                     [items |-> items, useNodeSizes |-> useNodeSizes,
                      returned |-> FALSE, result |-> <<>>])

NextBox == BoundingBoxCall

SpecBox == InitBox /\ [][NextBox]_vars

\* ----------------------------------------------------------- connectivity
\* The Nodes an Edge of Graph g joins to a Node of S.
Neighbours(s, g, S) ==
    {n \in s.nodes :
        \E e \in ChildEdges(s, g) :
            \/ s.source[e] \in S /\ s.dest[e] = n
            \/ s.dest[e] \in S /\ s.source[e] = n}

\* The Nodes reachable from the Nodes of S through Edges of Graph g.
RECURSIVE ReachSet(_, _, _)
ReachSet(s, g, S) ==
    LET T == S \cup Neighbours(s, g, S)
    IN  IF T = S THEN S ELSE ReachSet(s, g, T)

\* The Nodes joined to a Node of S by any live Edge.
AnyNeighbours(s, S) ==
    {n \in s.nodes :
        \E e \in s.edges :
            \/ s.source[e] \in S /\ s.dest[e] = n
            \/ s.dest[e] \in S /\ s.source[e] = n}

\* The connected component of Node n in the graph of all live Edges.
RECURSIVE ComponentOf(_, _)
ComponentOf(s, S) ==
    LET T == S \cup AnyNeighbours(s, S)
    IN  IF T = S THEN S ELSE ComponentOf(s, T)

\* The Edges with an end in S.
EdgesOn(s, S) ==
    {e \in s.edges : s.source[e] \in S \/ s.dest[e] \in S}

\* ----------------------------------------------------------------- claims
\* C1: starting from a canvas whose Graphs are connected, after any
\* sequence of node deletions, edge deletions, two-node joins, four-node
\* joins and rotations, two Nodes have the same parent Graph if and only if
\* each is reachable from the other through Edges of that Graph.
C1_Connectivity ==
    \A m \in nodes : \A n \in nodes :
        (nparent[m] = nparent[n])
            <=> (n \in ReachSet(Scene, nparent[m], {m}))

\* A split has just left two Graphs, one of them rotated, each still
\* connected.
C1_Witness ==
    /\ lastEvent.op \in {"deleteNode", "deleteEdge"}
    /\ lastEvent.newGraphs # <<>>
    /\ \E g \in graphs : grot[g] # 0 /\ ChildNodes(Scene, g) # {}

\* C2: after any sequence of deletions, splits and joins, every live Node
\* and every live Edge has one parent Graph, and that Graph is in
\* canvasGraphList.
C2_NoOrphan ==
    /\ \A n \in nodes :
          nparent[n] \in graphs /\ Contains(canvasGraphList, nparent[n])
    /\ \A e \in edges :
          eparent[e] \in graphs /\ Contains(canvasGraphList, eparent[e])

\* A join has merged two Graphs that a split had produced.
C2_Witness ==
    /\ lastEvent.op = "keyJ"
    /\ lastEvent.kind # "none"
    /\ Cardinality(nodes) < CanvasNodes
    /\ \E n \in nodes : Contains(canvasGraphList, nparent[n])

\* C3: after every deletion, split and join, canvasGraphList holds exactly
\* the live Graphs, each once, and every Graph in it has a Node child.
C3_ListConsistent ==
    /\ SeqToSet(canvasGraphList) = graphs
    /\ \A i, j \in 1..Len(canvasGraphList) :
          i # j => canvasGraphList[i] # canvasGraphList[j]
    /\ \A g \in SeqToSet(canvasGraphList) : ChildNodes(Scene, g) # {}

\* C4: when a deletion calls searchAndSeparate on affected Nodes that lie
\* in several connected components, then after the handler each affected
\* Node's parent Graph holds exactly the Nodes of that Node's component and
\* exactly the Edges between them, so no two components share a Graph.
C4_SplitComplete ==
    (lastEvent.op \in {"deleteNode", "deleteEdge"}
        /\ Len(lastEvent.affected) > 1)
    => \A a \in SeqToSet(lastEvent.affected) :
          LET comp == ComponentOf(Scene, {a})
          IN  /\ nparent[a] \in graphs
              /\ ChildNodes(Scene, nparent[a]) = comp
              /\ ChildEdges(Scene, nparent[a]) = EdgesOn(Scene, comp)

\* The deletion of a Node with four neighbours has split its Graph into
\* at least three components.
C4_Witness ==
    /\ lastEvent.op = "deleteNode"
    /\ Len(lastEvent.affected) = 4
    /\ Cardinality({nparent[lastEvent.affected[k]] : k \in 1..4}) >= 3

\* Two Nodes joined by a live Edge.
Adjacent(s, m, n) ==
    \E e \in s.edges :
        \/ s.source[e] = m /\ s.dest[e] = n
        \/ s.source[e] = n /\ s.dest[e] = m

\* No Edge from a Node to itself, no two Edges on the same two Nodes.
SimpleGraph(s) ==
    /\ \A e \in s.edges : s.source[e] # s.dest[e]
    /\ \A e, f \in s.edges :
          (e # f) => ({s.source[e], s.dest[e]} # {s.source[f], s.dest[f]})

\* C5: a two-node join of n1 in Graph A and n2 in Graph B leaves one new
\* Graph R, in canvasGraphList, whose Nodes are those of A and B without
\* n2 and whose Edges are all the Edges of A and of B; each Edge that had
\* n2 at an end has n1 there and keeps its other end; n2, A and B are gone.
C5_TwoNodeJoin ==
    [][(lastEvent'.op = "keyJ" /\ lastEvent'.kind = "two")
       => LET n1 == connectNode1a
              n2 == connectNode2a
              A == nparent[n1]
              B == nparent[n2]
              R == nparent'[n1]
              EAB == ChildEdges(Scene, A) \cup ChildEdges(Scene, B)
          IN  /\ R \notin graphs
              /\ R \in graphs'
              /\ Contains(canvasGraphList', R)
              /\ ChildNodes(Scene', R)
                   = (ChildNodes(Scene, A) \cup ChildNodes(Scene, B)) \ {n2}
              /\ ChildEdges(Scene', R) = EAB
              /\ Cardinality(ChildEdges(Scene', R))
                   = Cardinality(ChildEdges(Scene, A))
                       + Cardinality(ChildEdges(Scene, B))
              /\ \A e \in EAB :
                    /\ source'[e] = IF source[e] = n2 THEN n1 ELSE source[e]
                    /\ dest'[e] = IF dest[e] = n2 THEN n1 ELSE dest[e]
              /\ n2 \notin nodes'
              /\ A \notin graphs'
              /\ B \notin graphs'
              /\ ~Contains(canvasGraphList', A)
              /\ ~Contains(canvasGraphList', B)]_vars

\* A two-node join has just moved at least one Edge from n2 onto n1.
C5_Witness ==
    /\ lastEvent.op = "keyJ"
    /\ lastEvent.kind = "two"
    /\ lastEvent.affected[1] \in nodes
    /\ Len(edgeList[lastEvent.affected[1]]) >= 2

\* C6: a four-node join on graphs without parallel Edges destroys exactly
\* one Edge when n1a-n1b and n2a-n2b are both adjacent, leaving one Edge
\* between n1a and n1b and |E_A| + |E_B| - 1 Edges in the new Graph; it
\* destroys none when at most one pair is adjacent, leaving |E_A| + |E_B|.
C6_FourNodeDedupe ==
    [][(lastEvent'.op = "keyJ" /\ lastEvent'.kind = "four"
           /\ SimpleGraph(Scene))
       => LET n1a == connectNode1a
              n1b == connectNode1b
              A == nparent[n1a]
              B == nparent[connectNode2a]
              R == nparent'[n1a]
              before == Cardinality(ChildEdges(Scene, A))
                            + Cardinality(ChildEdges(Scene, B))
              after == Cardinality(ChildEdges(Scene', R))
              between == {e \in edges' :
                             {source'[e], dest'[e]} = {n1a, n1b}}
          IN  IF Adjacent(Scene, n1a, n1b)
                    /\ Adjacent(Scene, connectNode2a, connectNode2b)
              THEN /\ Cardinality(edges \ edges') = 1
                   /\ Cardinality(between) = 1
                   /\ after = before - 1
              ELSE /\ edges' = edges
                   /\ Cardinality(between) <= 1
                   /\ after = before]_vars

\* A four-node join on two adjacent pairs has just destroyed an Edge.
C6_Witness ==
    /\ lastEvent.op = "keyJ"
    /\ lastEvent.kind = "four"
    /\ lastEvent.arg = 1

\* The anchors break a precondition of the join that would run on them.
Malformed(s, a) ==
    IF a.n1a # Null /\ a.n2a # Null /\ a.n1b # Null /\ a.n2b # Null
    THEN \/ Cardinality({a.n1a, a.n1b, a.n2a, a.n2b}) < 4
         \/ s.nparent[a.n1a] # s.nparent[a.n1b]
         \/ s.nparent[a.n2a] # s.nparent[a.n2b]
         \/ s.nparent[a.n1a] = s.nparent[a.n2a]
    ELSE IF a.n1a # Null /\ a.n2a # Null
    THEN s.nparent[a.n1a] = s.nparent[a.n2a]
    ELSE FALSE

\* C7: a 'J' key release on anchors that break the join's preconditions
\* changes no Graph, Node or Edge and raises no graphJoined, however the
\* anchor slots came to hold those Nodes.
C7_MalformedNoOp ==
    [][(lastEvent'.op = "keyJ" /\ Malformed(Scene, Anchors))
       => /\ Scene' = Scene
          /\ emitted' = <<>>]_vars

\* C8: while a join is between its key release and its graphJoined, no
\* second join is running on one of its anchors or of its Graphs.
C8_NoReentrantJoin ==
    \A i, j \in 1..Len(joinStack) :
        i < j =>
            LET f == joinStack[i]
                h == joinStack[j]
            IN  /\ ({f.a.n1a, f.a.n1b, f.a.n2a, f.a.n2b}
                        \cap {h.a.n1a, h.a.n1b, h.a.n2a, h.a.n2b})
                       \subseteq {Null}
                /\ ({f.root1, f.root2} \cap {h.root1, h.root2})
                       \subseteq {Dangling}

\* C9: from the start of a join's animation to its end no other handler
\* runs, so at every step the anchor slots still hold the Nodes the join
\* started on, those Nodes are alive, and root1 and root2 are alive.
C9_JoinUninterrupted ==
    \A k \in 1..Len(joinStack) :
        LET f == joinStack[k]
        IN  /\ f.events = 0
            /\ Anchors = f.a
            /\ ({f.a.n1a, f.a.n1b, f.a.n2a, f.a.n2b} \ {Null}) \subseteq nodes
            /\ f.root1 \in graphs
            /\ f.root2 \in graphs

\* C10: after setRotation(amount, relative) on a Graph whose rotation was
\* p, the Graph's rotation is p + amount if relative and amount otherwise,
\* and every Node child and every Edge child has the negated new rotation.
C10_RotationCompensation ==
    [][(lastEvent'.op = "setRotation")
       => LET g == lastEvent'.affected[1]
              amount == lastEvent'.arg
              r == IF lastEvent'.kind = "relative" THEN grot[g] + amount
                   ELSE amount
          IN  /\ grot'[g] = r
              /\ \A n \in ChildNodes(Scene', g) : nrot'[n] = -r
              /\ \A e \in ChildEdges(Scene', g) : erot'[e] = -r]_vars

\* A relative setRotation has turned an already rotated Graph that has
\* Nodes and Edges.
C10_Witness ==
    /\ lastEvent.op = "setRotation"
    /\ lastEvent.kind = "relative"
    /\ lastEvent.arg # 0
    /\ grot[lastEvent.affected[1]] \notin {0, lastEvent.arg}
    /\ ChildNodes(Scene, lastEvent.affected[1]) # {}
    /\ ChildEdges(Scene, lastEvent.affected[1]) # {}

\* C11: in every state reached by rotations, deletions with their splits,
\* two-node joins and four-node joins, every Node and every Edge of a Graph
\* with rotation r has orientation -r; a Graph made by a split or a join
\* has rotation 0.
C11_RotationInvariant ==
    /\ \A n \in nodes : nparent[n] \in graphs => nrot[n] = -grot[nparent[n]]
    /\ \A e \in edges : eparent[e] \in graphs => erot[e] = -grot[eparent[e]]
    /\ \A k \in 1..Len(lastEvent.newGraphs) : grot[lastEvent.newGraphs[k]] = 0
    /\ (lastEvent.op = "keyJ" /\ lastEvent.kind # "none")
          => grot[nparent[lastEvent.affected[1]]] = 0

\* A split has taken a component out of a rotated Graph: the Nodes left
\* behind are still turned, the Nodes of the new Graph are not.
C11_Witness ==
    /\ lastEvent.op \in {"deleteNode", "deleteEdge"}
    /\ lastEvent.newGraphs # <<>>
    /\ \E n \in nodes : nrot[n] # 0 /\ grot[nparent[n]] # 0
    /\ \E n \in nodes : nparent[n] = lastEvent.newGraphs[1] /\ nrot[n] = 0

\* C12: a second centerGraph() on a Graph, right after the first, leaves
\* every Node's pos(), every Node's scenePos() and the Graph's pos() as the
\* first call left them.
C12_CenterIdempotent ==
    [][(lastEvent.op = "centerGraph" /\ lastEvent'.op = "centerGraph"
            /\ lastEvent'.arg = lastEvent.arg)
       => /\ npos' = npos
          /\ gpos' = gpos
          /\ \A n \in nodes :
                scenePos(Scene', NodeItem(n)) = scenePos(Scene, NodeItem(n))]_vars

\* centerGraph() has run twice in a row on a turned Graph with several
\* Nodes, and the first call had moved the Graph.
C12_Witness ==
    /\ lastEvent.op = "centerGraph"
    /\ lastEvent.kind = "again"
    /\ grot[lastEvent.arg] # 0
    /\ gpos[lastEvent.arg] \notin DropPlaces
    /\ Cardinality(ChildNodes(Scene, lastEvent.arg)) >= 2

\* C13: centerGraph() leaves the scenePos() of every Node child as it was,
\* whatever the Graph's rotation.
C13_CenterKeepsScenePos ==
    [][(lastEvent'.op = "centerGraph")
       => \A n \in ChildNodes(Scene, lastEvent'.arg) :
             scenePos(Scene', NodeItem(n)) = scenePos(Scene, NodeItem(n))]_vars

\* C14: right after centerGraph() on a Graph with a Node, the centre of
\* the Node children's pos() that boundingBox reports is (0, 0).
C14_CenterPostcondition ==
    (lastEvent.op = "centerGraph"
        /\ ChildNodes(Scene, lastEvent.arg) # {})
    => LET bb == boundingBox(ChildBoxItems(Scene, lastEvent.arg), FALSE)
       IN  bb.exact /\ bb.RGcenter = Origin

\* centerGraph() has moved the origin of a Graph whose Nodes are not all
\* in one place.
C14_Witness ==
    /\ lastEvent.op = "centerGraph"
    /\ lastEvent.kind = "first"
    /\ gpos[lastEvent.arg] \notin DropPlaces
    /\ \E m, n \in ChildNodes(Scene, lastEvent.arg) : npos[m] # npos[n]

\* The Node children among the items of the boundingBox call.
BoxCallNodes ==
    {k \in 1..Len(boxCall.items) : boxCall.items[k].type = "node"}

\* The radius boundingBox is to use for the k-th item of the call.
BoxCallRadius(k) == IF boxCall.useNodeSizes THEN boxCall.items[k].r ELSE 0

MaxOf(S) == CHOOSE x \in S : \A y \in S : x >= y

\* C15: for Node children in any order and with any radii, boundingBox
\* returns the rectangle from the least x - r and y - r to the greatest
\* x + r and y + r over the Nodes (r = 0 without node sizes), Edges not
\* counting, with the centre its middle; with no Node the rectangle and the
\* centres are zero.
C15_BoundingBox ==
    boxCall.returned
    => IF BoxCallNodes = {}
       THEN /\ boxCall.result.rect = <<0, 0, 0, 0>>
            /\ boxCall.result.center = Origin
            /\ boxCall.result.RGcenter = Origin
       ELSE LET minx == MinOf({boxCall.items[k].x - BoxCallRadius(k) :
                                  k \in BoxCallNodes})
                maxx == MaxOf({boxCall.items[k].x + BoxCallRadius(k) :
                                  k \in BoxCallNodes})
                miny == MinOf({boxCall.items[k].y - BoxCallRadius(k) :
                                  k \in BoxCallNodes})
                maxy == MaxOf({boxCall.items[k].y + BoxCallRadius(k) :
                                  k \in BoxCallNodes})
            IN  /\ boxCall.result.rect
                      = <<minx, miny, maxx - minx, maxy - miny>>
                /\ boxCall.result.center
                      = <<Half(maxx + minx), Half(maxy + miny)>>

\* ---------------------------------------------------------------- C16
\* C16: whenever a delete handler has returned, whether or not its split
\* check moved anything, every Node and every Edge has checked = 0, and
\* every pass of the split check began with all checked flags 0; so a later
\* deletion never meets a flag left over by an earlier one.
C16_CheckedCleared ==
    /\ \A n \in nodes : nchecked[n] = 0
    /\ \A e \in edges : echecked[e] = 0
    /\ \A k \in 1..Len(lastEvent.passes) : ~lastEvent.passes[k].stale

\* A deletion whose split check made two passes or more, one that moved
\* its items to a new Graph and one that moved nothing, on a canvas that
\* an earlier deletion had already split.
C16_Witness ==
    /\ lastEvent.op \in {"deleteNode", "deleteEdge"}
    /\ Len(lastEvent.passes) >= 2
    /\ \E k \in 1..Len(lastEvent.passes) : lastEvent.passes[k].moved # <<>>
    /\ \E k \in 1..Len(lastEvent.passes) : lastEvent.passes[k].moved = <<>>
    /\ Len(canvasGraphList) > Len(lastEvent.newGraphs) + 1
    /\ C16_CheckedCleared

\* ---------------------------------------------------------------- C17
\* C17: every handler of the scene that deletes a Node, an Edge or a whole
\* Graph, splits a Graph, or completes a two-node or four-node join raises
\* somethingChanged.
C17_SomethingChanged ==
    (\/ lastEvent.op \in {"deleteNode", "deleteEdge", "deleteGraph"}
     \/ lastEvent.op = "keyJ" /\ lastEvent.kind \in {"two", "four"})
        => Contains(emitted, "somethingChanged")

\* ---------------------------------------------------------------- C18
\* The step of an edge deletion that called the split check with the two
\* ends of the Edge, which the deletion left in two components of the
\* Graph that held them.
C18_Case ==
    /\ lastEvent'.op = "deleteEdge"
    /\ Len(lastEvent'.affected) = 2
    /\ nparent[lastEvent'.affected[1]] = nparent[lastEvent'.affected[2]]
    /\ lastEvent'.affected[2]
          \notin ComponentOf(Scene', {lastEvent'.affected[1]})

\* C18, as stated: when the split check is called on a Graph holding two
\* components with one affected Node from each, then on return the
\* original Graph is destroyed or has no children left.
C18_OriginalEmptied ==
    [][C18_Case =>
          LET g0 == nparent[lastEvent'.affected[1]]
          IN  g0 \notin graphs' \/ ChildItemsEmpty(Scene', g0)]_vars

\* C18, amended: in that case the original Graph survives, stays in the
\* list with its rotation and position, and holds exactly the component of
\* the second (last) affected Node; the component of the first affected
\* Node is in the one new Graph, which is in the list too.
C18_OriginalKeepsLast ==
    [][C18_Case =>
          LET a1 == lastEvent'.affected[1]
              a2 == lastEvent'.affected[2]
              g0 == nparent[a1]
          IN  /\ g0 \in graphs'
              /\ Contains(canvasGraphList', g0)
              /\ grot'[g0] = grot[g0]
              /\ gpos'[g0] = gpos[g0]
              /\ ChildNodes(Scene', g0) = ComponentOf(Scene', {a2})
              /\ ChildEdges(Scene', g0)
                    = EdgesOn(Scene', ComponentOf(Scene', {a2}))
              /\ Len(lastEvent'.newGraphs) = 1
              /\ lastEvent'.newGraphs[1] \notin graphs
              /\ Contains(canvasGraphList', lastEvent'.newGraphs[1])
              /\ ChildNodes(Scene', lastEvent'.newGraphs[1])
                    = ComponentOf(Scene', {a1})
              /\ ChildEdges(Scene', lastEvent'.newGraphs[1])
                    = EdgesOn(Scene', ComponentOf(Scene', {a1}))]_vars

\* An edge deletion has cut a Graph in two: the destination end of the
\* Edge sits in a new Graph, the source end in another Graph that has
\* children and is in the list.
C18_Witness ==
    /\ lastEvent.op = "deleteEdge"
    /\ Len(lastEvent.newGraphs) = 1
    /\ nparent[lastEvent.affected[1]] = lastEvent.newGraphs[1]
    /\ nparent[lastEvent.affected[2]] # lastEvent.newGraphs[1]
    /\ nparent[lastEvent.affected[2]] \in graphs
    /\ Contains(canvasGraphList, nparent[lastEvent.affected[2]])
    /\ Cardinality(ChildNodes(Scene, nparent[lastEvent.affected[2]])) >= 2

\* ---------------------------------------------------------------- C19
\* C19: within one call of the split check, an affected Node that the
\* traversal of an earlier pass reached is not the start of a later pass;
\* so no Node or Edge is reparented by two passes, and no two passes that
\* create a Graph start in the same connected component.
C19_SkipSet ==
    lastEvent.op \in {"deleteNode", "deleteEdge"} =>
        \A p, q \in 1..Len(lastEvent.passes) :
            p < q =>
                /\ lastEvent.passes[q].start \notin lastEvent.passes[p].reached
                /\ SeqToSet(lastEvent.passes[p].moved)
                      \cap SeqToSet(lastEvent.passes[q].moved) = {}
                /\ (lastEvent.passes[p].moved # <<>>
                       /\ lastEvent.passes[q].moved # <<>>)
                    => lastEvent.passes[q].start
                          \notin ComponentOf(Scene,
                                             {lastEvent.passes[p].start})

\* ---------------------------------------------------------------- C20
\* The step of a deletion whose split check ran and found every affected
\* Node still reachable from the first one.
C20_Case ==
    /\ lastEvent'.op \in {"deleteNode", "deleteEdge"}
    /\ Len(lastEvent'.passes) >= 1
    /\ \A k \in 1..Len(lastEvent'.affected) :
          lastEvent'.affected[k]
              \in ComponentOf(Scene', {lastEvent'.affected[1]})

\* C20: in that case the split check creates no Graph, every Node and Edge
\* that survives the deletion keeps its parent, its pos() and its
\* rotation, the Graph list is unchanged and graphSeparated is not raised.
C20_NoSplit ==
    [][C20_Case =>
          /\ lastEvent'.newGraphs = <<>>
          /\ graphs' = graphs
          /\ \A k \in 1..Len(lastEvent'.passes) :
                lastEvent'.passes[k].moved = <<>>
          /\ \A n \in nodes' : /\ nparent'[n] = nparent[n]
                                /\ npos'[n] = npos[n]
                                /\ nrot'[n] = nrot[n]
          /\ \A e \in edges' : /\ eparent'[e] = eparent[e]
                                /\ epos'[e] = epos[e]
                                /\ erot'[e] = erot[e]
          /\ canvasGraphList' = canvasGraphList
          /\ ~Contains(emitted', "graphSeparated")]_vars

\* A deletion in a turned Graph whose Nodes lie at different places has
\* run the split check on Nodes that are still connected.
C20_Witness ==
    /\ lastEvent.op \in {"deleteNode", "deleteEdge"}
    /\ Len(lastEvent.passes) >= 1
    /\ \A k \in 1..Len(lastEvent.affected) :
          lastEvent.affected[k]
              \in ComponentOf(Scene, {lastEvent.affected[1]})
    /\ grot[nparent[lastEvent.affected[1]]] # 0
    /\ nrot[lastEvent.affected[1]] # 0
    /\ npos[lastEvent.affected[1]] # npos[lastEvent.affected[2]]
    /\ lastEvent.newGraphs = <<>>

\* ---------------------------------------------------------------- C21
\* The items the passes of the last split check moved to a new Graph.
MovedItems(ev) ==
    UNION {SeqToSet(ev.passes[k].moved) : k \in 1..Len(ev.passes)}

\* C21: every Node and Edge that the split check of a deletion moves into
\* a new Graph has the same scene position after the handler as before it,
\* whatever the rotation of its old Graph; each new Graph has rotation 0
\* and each moved item rotation 0; every surviving item that is not moved
\* keeps its parent, its pos() and its rotation.
C21_SplitKeepsPlacement ==
    [][lastEvent'.op \in {"deleteNode", "deleteEdge"} =>
          /\ \A g \in SeqToSet(lastEvent'.newGraphs) :
                g \in graphs' /\ grot'[g] = 0
          /\ \A n \in nodes' :
                IF NodeItem(n) \in MovedItems(lastEvent')
                THEN /\ scenePos(Scene', NodeItem(n))
                          = scenePos(Scene, NodeItem(n))
                     /\ nrot'[n] = 0
                     /\ nparent'[n] \in SeqToSet(lastEvent'.newGraphs)
                ELSE /\ nparent'[n] = nparent[n]
                     /\ npos'[n] = npos[n]
                     /\ nrot'[n] = nrot[n]
          /\ \A e \in edges' :
                IF EdgeItem(e) \in MovedItems(lastEvent')
                THEN /\ scenePos(Scene', EdgeItem(e))
                          = scenePos(Scene, EdgeItem(e))
                     /\ erot'[e] = 0
                     /\ eparent'[e] \in SeqToSet(lastEvent'.newGraphs)
                ELSE /\ eparent'[e] = eparent[e]
                     /\ epos'[e] = epos[e]
                     /\ erot'[e] = erot[e]]_vars

\* A deletion has split a turned Graph: a Node away from the Graph's
\* origin was moved to a new Graph, and the affected Node that stayed
\* behind is still in a turned Graph.
C21_Witness ==
    /\ lastEvent.op \in {"deleteNode", "deleteEdge"}
    /\ lastEvent.newGraphs # <<>>
    /\ \E n \in nodes :
          /\ NodeItem(n) \in MovedItems(lastEvent)
          /\ npos[n] # Origin
          /\ npos[n] # Turn(1, npos[n])
          /\ nrot[n] = 0
    /\ \E n \in SeqToSet(lastEvent.affected) :
          /\ NodeItem(n) \notin MovedItems(lastEvent)
          /\ grot[nparent[n]] # 0
          /\ nrot[n] # 0

\* ---------------------------------------------------------------- C22
\* The step of keyReleaseEvent('J') that completed a join of this kind.
JoinStep(kind) ==
    /\ ~crashed'
    /\ connectNode1a # Null
    /\ connectNode2a # Null
    /\ connectNode1a' = Null
    /\ lastEvent'.op = "keyJ"
    /\ lastEvent'.kind = kind

Merged(a, n) ==
    IF n = a.n2a THEN a.n1a ELSE IF n = a.n2b THEN a.n1b ELSE n

\* What a four-node join on A (of n1a) and B (of n2a) does to the Graphs
\* and Nodes: the joined Graph holds the Nodes of A and B but n2a and n2b,
\* and n2a, n2b, A and B are gone.
FourNodeNodes ==
    LET A == nparent[connectNode1a]
        B == nparent[connectNode2a]
        R == nparent'[connectNode1a]
    IN  /\ R \in graphs' \ graphs
        /\ ChildNodes(Scene', R)
              = (ChildNodes(Scene, A) \cup ChildNodes(Scene, B))
                    \ {connectNode2a, connectNode2b}
        /\ connectNode2a \notin nodes'
        /\ connectNode2b \notin nodes'
        /\ A \notin graphs'
        /\ B \notin graphs'
        /\ \A e \in edges' :
              {source'[e], dest'[e]} \cap {connectNode2a, connectNode2b} = {}

\* C23, as stated: after a four-node join the joined Graph holds exactly
\* the Nodes of A and B but n2a and n2b; every Edge that was incident to
\* n2a is incident to n1a in the same role, and every Edge that was
\* incident to n2b is incident to n1b; no surviving Edge ends in n2a or
\* n2b; n2a, n2b, A and B no longer exist.
C23_FourNodeRewiring ==
    [][JoinStep("four") =>
          /\ FourNodeNodes
          /\ \A e \in edges :
                (\/ {source[e], dest[e]} \cap {connectNode2a} # {}
                 \/ {source[e], dest[e]} \cap {connectNode2b} # {})
                => /\ e \in edges'
                   /\ source'[e] = Merged(Anchors, source[e])
                   /\ dest'[e] = Merged(Anchors, dest[e])]_vars

\* C23, amended: the same for every Edge that survives the join, and the
\* only Edge the join destroys is an Edge between n2a and n2b when n1a and
\* n1b were joined by an Edge already; every surviving Edge is a child of
\* the joined Graph.
C23_FourNodeRewiringSurvivors ==
    [][JoinStep("four") =>
          /\ FourNodeNodes
          /\ edges' \subseteq edges
          /\ \A e \in edges :
                IF e \in edges'
                THEN /\ source'[e] = Merged(Anchors, source[e])
                     /\ dest'[e] = Merged(Anchors, dest[e])
                     /\ eparent'[e] = nparent'[connectNode1a]
                ELSE /\ {source[e], dest[e]}
                          = {connectNode2a, connectNode2b}
                     /\ Adjacent(Scene, connectNode1a, connectNode1b)]_vars

\* A four-node join has ended: an Edge that was incident to a discarded
\* anchor now ends in connectNode1a's place and the joined Graph holds
\* every Node that is left.
C23_Witness ==
    /\ lastEvent.op = "keyJ"
    /\ lastEvent.kind = "four"
    /\ ~crashed
    /\ lastEvent.affected[3] \notin nodes
    /\ lastEvent.affected[4] \notin nodes
    /\ \E g \in graphs : ChildNodes(Scene, g) = nodes
    /\ \E e \in edges :
          {source[e], dest[e]} = {lastEvent.affected[1], lastEvent.affected[2]}

\* ---------------------------------------------------------------- C24
\* A label that consists of digits, and of one at least.
PurelyNumeric(l) == l # <<>> /\ \A k \in 1..Len(l) : IsDigit(l[k])

\* A label that writes a number: digits, with or without a sign before
\* them.
Numeric(l) ==
    \/ PurelyNumeric(l)
    \/ l # <<>> /\ l[1] \in {"-", "+"} /\ PurelyNumeric(Tail(l))

\* C24: if the label of connectNode1a is purely numeric, then after a join
\* the Nodes of the joined Graph carry the labels 0, 1, ..., m-1, each
\* once, m being their number; if the label is not numeric, the join
\* changes no label.
C24_Renumbering ==
    [][(JoinStep("two") \/ JoinStep("four")) =>
          LET R == ChildNodes(Scene', nparent'[connectNode1a])
          IN  /\ PurelyNumeric(label[connectNode1a]) =>
                    /\ {label'[n] : n \in R}
                          = {number(k) : k \in 0..(Cardinality(R) - 1)}
                    /\ \A m, n \in R : m # n => label'[m] # label'[n]
              /\ ~Numeric(label[connectNode1a]) =>
                    \A n \in nodes' : label'[n] = label[n]]_vars

\* ---------------------------------------------------------------- C25
\* The centre boundingBox(nullptr, false, &RGcenter) reports for the Graph
\* g, in g's coordinates.
LocalCenter(s, g) == boundingBox(ChildBoxItems(s, g), FALSE).RGcenter

\* C25: once a two-node or four-node join has completed, the origin of the
\* joined Graph is the centre of the Nodes that remain in it.
C25_JoinedCentred ==
    [][(JoinStep("two") \/ JoinStep("four")) =>
          LocalCenter(Scene', nparent'[connectNode1a]) = Origin]_vars

\* The same for the two-node join alone, where the discarded anchor lies
\* on connectNode1a when centerGraph is called.
C25_TwoNodeCentred ==
    [][JoinStep("two") =>
          LocalCenter(Scene', nparent'[connectNode1a]) = Origin]_vars

\* ---------------------------------------------------------------- C26
\* The Container of a live Node.
Container(n) == nparent[n]

\* C26: connectNode1b, connectNode2a or connectNode2b is set only if
\* connectNode1a is; connectNode1b differs from connectNode1a and is in its
\* Graph; connectNode2a is in another Graph than connectNode1a;
\* connectNode2b is set only if connectNode2a is, differs from it and is in
\* its Graph; every slot that is set holds a live Node.
C26_AnchorsWellFormed ==
    ~crashed =>
        /\ \A n \in {connectNode1a, connectNode1b, connectNode2a,
                      connectNode2b} \ {Null} : n \in nodes
        /\ connectNode1a = Null =>
              /\ connectNode1b = Null
              /\ connectNode2a = Null
              /\ connectNode2b = Null
        /\ connectNode1b # Null =>
              /\ connectNode1b # connectNode1a
              /\ Container(connectNode1b) = Container(connectNode1a)
        /\ connectNode2a # Null =>
              Container(connectNode2a) # Container(connectNode1a)
        /\ connectNode2b # Null =>
              /\ connectNode2a # Null
              /\ connectNode2b # connectNode2a
              /\ Container(connectNode2b) = Container(connectNode2a)

\* The four slots are set by mouse presses.
C26_Witness ==
    /\ ~crashed
    /\ lastEvent.op = "pressJoin"
    /\ connectNode1a # Null /\ connectNode1b # Null
    /\ connectNode2a # Null /\ connectNode2b # Null

\* ---------------------------------------------------------------- C27
\* C27: for every live Node n and live Edge e, e is in n's edgeList exactly
\* when n is the source or the dest of e; every entry of the list is a
\* live Edge; no Edge is in a list twice.
C27_EdgeLists ==
    ~crashed =>
        \A n \in nodes :
            /\ \A k \in 1..Len(edgeList[n]) : edgeList[n][k] \in edges
            /\ \A i, j \in 1..Len(edgeList[n]) :
                  i # j => edgeList[n][i] # edgeList[n][j]
            /\ \A e \in edges :
                  Contains(edgeList[n], e) <=> n \in {source[e], dest[e]}

\* A four-node join has removed a duplicate Edge on a canvas where
\* freestyle mode has created Edges.
C27_Witness ==
    /\ ~crashed
    /\ created > 0
    /\ lastEvent.op = "keyJ"
    /\ lastEvent.kind = "four"
    /\ lastEvent.arg = 1

\* ---------------------------------------------------------------- C28
\* C28: a freestyle edge creation, a deletion of a Node or of an Edge, a
\* two-node join and a four-node join leave the canvas without self-loops
\* and parallel Edges when it had none before.
C28_SimplePreserved ==
    [][(SimpleGraph(Scene) /\ ~crashed') => SimpleGraph(Scene')]_vars

\* Freestyle mode is asked for an Edge between two Nodes that an Edge
\* joins already, and makes none.
C28_Witness ==
    /\ ~crashed
    /\ lastEvent.op = "pressFree"
    /\ lastEvent.arg = Null
    /\ Len(lastEvent.affected) = 2
    /\ lastEvent.affected[1] # Null
    /\ \E e \in edges :
          {source[e], dest[e]} = {lastEvent.affected[1], lastEvent.affected[2]}

\* ---------------------------------------------------------------- C29
\* The step is a freestyle mouse press that created an Edge.
EdgeCreated == lastEvent'.op = "pressFree" /\ lastEvent'.arg # Null

\* C29: an Edge created between two Nodes of one Graph of rotation r has
\* rotation -r; an Edge created between Nodes of two Graphs is in a new
\* Graph of rotation 0 whose children all have rotation 0.
C29_NewEdgeCompensated ==
    [][EdgeCreated =>
          LET e == lastEvent'.arg
              g == eparent'[e]
          IN  IF nparent[source'[e]] = nparent[dest'[e]]
              THEN erot'[e] = -grot'[g]
              ELSE /\ g \notin graphs
                   /\ grot'[g] = 0
                   /\ \A n \in ChildNodes(Scene', g) : nrot'[n] = 0
                   /\ \A f \in ChildEdges(Scene', g) : erot'[f] = 0]_vars

\* The second half alone: the Edge created between Nodes of two Graphs.
C29_NewGraphUnturned ==
    [][(EdgeCreated /\ nparent[source'[lastEvent'.arg]]
                          # nparent[dest'[lastEvent'.arg]]) =>
          LET g == eparent'[lastEvent'.arg]
          IN  /\ g \notin graphs
              /\ grot'[g] = 0
              /\ \A n \in ChildNodes(Scene', g) : nrot'[n] = 0
              /\ \A f \in ChildEdges(Scene', g) : erot'[f] = 0]_vars

\* ---------------------------------------------------------------- C30
\* The Nodes of the Graph g that a path of g's Edges joins to a Node of S.
RECURSIVE ReachedIn(_, _, _)
ReachedIn(s, g, S) ==
    LET more == {n \in ChildNodes(s, g) :
                    \E e \in ChildEdges(s, g) :
                        \/ s.source[e] \in S /\ s.dest[e] = n
                        \/ s.dest[e] \in S /\ s.source[e] = n}
    IN  IF more \subseteq S THEN S ELSE ReachedIn(s, g, S \cup more)

\* C30: two Nodes are in the same Graph only if a path of Edges of that
\* Graph joins them, and the two Nodes of an Edge are in the Graph the
\* Edge is in.
C30_FreestyleConnected ==
    /\ \A m, n \in nodes :
          nparent[m] = nparent[n] => n \in ReachedIn(Scene, nparent[m], {m})
    /\ \A e \in edges :
          /\ eparent[e] = nparent[source[e]]
          /\ eparent[e] = nparent[dest[e]]

\* The second half alone.
C30_EdgeWithItsNodes ==
    \A e \in edges :
        /\ eparent[e] = nparent[source[e]]
        /\ eparent[e] = nparent[dest[e]]

=============================================================================
